---- MODULE Spec2Model ----
(***************************************************************************)
(* Tennis match simulator (simulators/tennis/sim.py): a match is played    *)
(* point by point.  The call stack simulate_match -> simulate_set ->       *)
(* simulate_game / simulate_tiebreak -> simulate_point is flattened into   *)
(* one state machine; pc names the loop the program is in.                 *)
(*                                                                         *)
(* Probabilities are Python floats in [0,1]; they are modelled in fixed    *)
(* point, Scale standing for 1.0.  Form multipliers are in percent.        *)
(***************************************************************************)
EXTENDS Integers, Sequences, FiniteSets, TLC

\* ------------------------------------------------------------------------
\* Bounds of the model
\* ------------------------------------------------------------------------
MaxGamePoints == 8        \* points played in one game (deuce is unbounded)
MaxTiebreakPoints == 14   \* points played in one tiebreak
MaxAces == 1              \* aces tallied in one match
MaxDoubleFaults == 1      \* double faults tallied in one match

\* the values of best_of a match is started with (the callers pass 3)
BestOfValues == {1, 2, 3}

\* ------------------------------------------------------------------------
\* Numbers
\* ------------------------------------------------------------------------
Scale == 10000            \* fixed-point 1.0

Abs(x) == IF x < 0 THEN -x ELSE x

Max2(a, b) == IF a >= b THEN a ELSE b

Min2(a, b) == IF a <= b THEN a ELSE b

\* clip without the lower limit
clip_upper_only(value, min_value, max_value) == Min2(value, max_value)

\* clip(value, min_value, max_value)
clip(value, min_value, max_value) == Max2(min_value, Min2(value, max_value))

\* random.gauss(1.0, 0.1) clipped to [0.7, 1.3], in percent
FormMin == 70

FormMax == 130

\* the draws <<serve_form, return_form>> of player 1 and of player 2 at the
\* start of a match
FormDraws == { << FormMin, FormMax, FormMax, FormMin >>,
               << FormMax, FormMin, FormMin, FormMax >> }

\* random.random() is in [0.0, 1.0)
Rolls == {0, Scale - 1}

Players == {1, 2}

Other(p) == IF p = 1 THEN 2 ELSE 1

NoVal == [absent |-> TRUE]

\* 'daily_stats': {} of a freshly built player dictionary
EmptyStats == [absent |-> TRUE, empty |-> TRUE]

\* The fields of a stats dictionary that the simulator reads or writes,
\* rounded to 1/Scale.
sinner_base_stats ==
    [ FirstServePercentage |-> 6159,
      FirstServeWonPercentage |-> 7934,
      SecondServeWonPercentage |-> 5784,
      AcePercentage |-> 991,
      DoubleFaultPercentage |-> 240,
      ReturnPointsWonPercentage |-> 4088,
      BreakPointsConvertedPercentage |-> 4225 ]

alcaraz_base_stats ==
    [ FirstServePercentage |-> 6551,
      FirstServeWonPercentage |-> 7364,
      SecondServeWonPercentage |-> 5772,
      AcePercentage |-> 626,
      DoubleFaultPercentage |-> 264,
      ReturnPointsWonPercentage |-> 4160,
      BreakPointsConvertedPercentage |-> 4199 ]

\* ------------------------------------------------------------------------
\* Helper functions of the simulator
\* ------------------------------------------------------------------------
\* generate_daily_stats without the calls of clip
generate_daily_stats_unclipped(base_stats, serve_form, return_form) ==
    [ base_stats EXCEPT
        !.AcePercentage = (base_stats.AcePercentage * serve_form) \div 100,
        !.FirstServeWonPercentage = (base_stats.FirstServeWonPercentage * serve_form) \div 100,
        !.SecondServeWonPercentage =
            (base_stats.SecondServeWonPercentage * serve_form) \div 100,
        !.DoubleFaultPercentage = (base_stats.DoubleFaultPercentage * 100) \div serve_form,
        !.ReturnPointsWonPercentage =
            (base_stats.ReturnPointsWonPercentage * return_form) \div 100,
        !.BreakPointsConvertedPercentage =
            (base_stats.BreakPointsConvertedPercentage * return_form) \div 100 ]

generate_daily_stats(base_stats, serve_form, return_form) ==
    [ base_stats EXCEPT
        !.AcePercentage = clip((base_stats.AcePercentage * serve_form) \div 100, 0, Scale),
        !.FirstServeWonPercentage =
            clip((base_stats.FirstServeWonPercentage * serve_form) \div 100, 0, Scale),
        !.SecondServeWonPercentage =
            clip((base_stats.SecondServeWonPercentage * serve_form) \div 100, 0, Scale),
        !.FirstServePercentage = base_stats.FirstServePercentage,
        !.DoubleFaultPercentage =
            clip((base_stats.DoubleFaultPercentage * 100) \div serve_form, 0, Scale),
        !.ReturnPointsWonPercentage =
            clip((base_stats.ReturnPointsWonPercentage * return_form) \div 100, 0, Scale),
        !.BreakPointsConvertedPercentage =
            clip((base_stats.BreakPointsConvertedPercentage * return_form) \div 100, 0, Scale) ]

\* generate_daily_stats writing into base_stats instead of a copy of it
generate_daily_stats_in_place(base_stats, serve_form, return_form) ==
    generate_daily_stats(base_stats, serve_form, return_form)

\* "daily = base_stats.copy()": the dictionary passed as base_stats, after the
\* call of generate_daily_stats
generate_daily_stats_input(base_stats, serve_form, return_form) == base_stats

\* factor = 1.0 + 0.02 * momentum, in percent
MomentumFactor(m) == 100 + 2 * m

\* apply_momentum_to_stats without the calls of clip
apply_momentum_to_stats_unclipped(daily, m) ==
    [ daily EXCEPT
        !.AcePercentage = (daily.AcePercentage * MomentumFactor(m)) \div 100,
        !.FirstServeWonPercentage = (daily.FirstServeWonPercentage * MomentumFactor(m)) \div 100,
        !.SecondServeWonPercentage =
            (daily.SecondServeWonPercentage * MomentumFactor(m)) \div 100,
        !.DoubleFaultPercentage = (daily.DoubleFaultPercentage * 100) \div MomentumFactor(m) ]

apply_momentum_to_stats(daily, m) ==
    [ daily EXCEPT
        !.AcePercentage = clip((daily.AcePercentage * MomentumFactor(m)) \div 100, 0, Scale),
        !.FirstServeWonPercentage =
            clip((daily.FirstServeWonPercentage * MomentumFactor(m)) \div 100, 0, Scale),
        !.SecondServeWonPercentage =
            clip((daily.SecondServeWonPercentage * MomentumFactor(m)) \div 100, 0, Scale),
        !.DoubleFaultPercentage =
            clip((daily.DoubleFaultPercentage * 100) \div MomentumFactor(m), 0, Scale),
        !.FirstServePercentage = daily.FirstServePercentage,
        !.ReturnPointsWonPercentage = daily.ReturnPointsWonPercentage,
        !.BreakPointsConvertedPercentage = daily.BreakPointsConvertedPercentage ]

\* "effective = daily_stats.copy()": the dictionary passed as daily_stats, after
\* the call of apply_momentum_to_stats
apply_momentum_to_stats_input(daily, m) == daily

\* update_momentum without the cap between -3 and +3
update_momentum_unclamped(m, event) ==
    IF event = "win_break" THEN m + 1
    ELSE IF event = "lose_break" THEN m - 1
    ELSE m

\* update_momentum(player, event): the new value of player['momentum']
update_momentum(m, event) ==
    IF event = "win_break" THEN clip(m + 1, -3, 3)
    ELSE IF event = "lose_break" THEN clip(m - 1, -3, 3)
    ELSE m

\* p_win of simulate_point
p_win(stats) ==
    (stats.FirstServePercentage * stats.FirstServeWonPercentage
       + (Scale - stats.FirstServePercentage) * stats.SecondServeWonPercentage) \div Scale

\* simulate_point with the ace checked before the double fault
simulate_point_ace_first(player, roll, roll2, roll3) ==
    LET stats == apply_momentum_to_stats(player.daily_stats, player.momentum)
    IN  IF roll2 < stats.AcePercentage
          THEN [point_won |-> TRUE, is_ace |-> TRUE, is_df |-> FALSE]
        ELSE IF roll < stats.DoubleFaultPercentage
          THEN [point_won |-> FALSE, is_ace |-> FALSE, is_df |-> TRUE]
        ELSE [point_won |-> roll3 < p_win(stats), is_ace |-> FALSE, is_df |-> FALSE]

\* simulate_point(player) with the three random draws made explicit;
\* roll2 and roll3 are consumed only when the earlier checks fall through.
simulate_point(player, roll, roll2, roll3) ==
    LET stats == apply_momentum_to_stats(player.daily_stats, player.momentum)
    IN  IF roll < stats.DoubleFaultPercentage
          THEN [point_won |-> FALSE, is_ace |-> FALSE, is_df |-> TRUE]
        ELSE IF roll2 < stats.AcePercentage
          THEN [point_won |-> TRUE, is_ace |-> TRUE, is_df |-> FALSE]
        ELSE [point_won |-> roll3 < p_win(stats), is_ace |-> FALSE, is_df |-> FALSE]

\* the player dictionary after a call of simulate_point(player)
after_point(player) ==
    [player EXCEPT
       !.daily_stats = apply_momentum_to_stats_input(player.daily_stats, player.momentum)]

\* ------------------------------------------------------------------------
\* State
\* ------------------------------------------------------------------------
VARIABLES
    pc,                 \* where the program is
    player1, player2,   \* the caller's player dictionaries
    best_of, sets_to_win, next_set_server, p1_stats, p2_stats,   \* simulate_match
    games_p1, games_p2, aces_p1, aces_p2, df_p1, df_p2, next_server,  \* simulate_set
    server_points, receiver_points, server_aces, server_double_faults, \* game/tiebreak
    current_server, point_count,                                  \* simulate_tiebreak
    game_info, tb_info, set_result,                               \* values returned
    hist,               \* history of the running match (observation only)
    tennis_players,     \* the TennisPlayer objects of the point engine
    points_played,      \* calls of PointSimulator.simulate_point made
    point_obs           \* the last call of the point engine (observation only)

vars == << pc, player1, player2, best_of, sets_to_win, next_set_server, p1_stats,
           p2_stats, games_p1, games_p2, aces_p1, aces_p2, df_p1, df_p2, next_server,
           server_points, receiver_points, server_aces, server_double_faults,
           current_server, point_count, game_info, tb_info, set_result, hist,
           tennis_players, points_played, point_obs >>

matchVars == << best_of, sets_to_win, next_set_server, p1_stats, p2_stats >>

setVars == << games_p1, games_p2, aces_p1, aces_p2, df_p1, df_p2, next_server >>

gameVars == << server_points, receiver_points, server_aces, server_double_faults,
               current_server, point_count >>

engineVars == << tennis_players, points_played, point_obs >>

\* a player dictionary as the batch loop builds it
FreshPlayer(base) == [base_stats |-> base, momentum |-> 0, daily_stats |-> EmptyStats,
                      breaks |-> 0]

\* the initial p1_stats / p2_stats of simulate_match
InitStats == [sets_won |-> 0, games_won |-> 0, aces |-> 0, double_faults |-> 0,
              breaks |-> 0, clean_sets |-> 0]

\* what the history records about the running match
InitHist == [ gen_calls |-> <<0, 0>>,      \* calls of generate_daily_stats per player
              point_played |-> FALSE,      \* a point has been simulated
              sets_started |-> 0,          \* calls of simulate_set
              set_results |-> << >>,       \* the values simulate_set returned
              tiebreaks |-> 0,             \* tiebreaks played in the current set
              tb_score |-> <<0, 0>>,       \* games when the tiebreak was entered
              tb_servers |-> << >>,        \* who served each tiebreak point
              tb_points |-> <<0, 0>>,      \* tiebreak points won by player 1, 2
              set_servers |-> << >>,       \* starting_server of each call of simulate_set
              last_servers |-> << >>,      \* who served the last game of each finished set
              game_servers |-> << >>,      \* who served each game of the current set
              last_point |-> NoVal,        \* draws and result of the last simulate_point
              aces |-> <<0, 0>>,           \* aces served per player
              dfs |-> <<0, 0>>,            \* double faults served per player
              replay |-> NoVal ]           \* the draws of a call that is replayed

\* the replay record after a call consumed the draws x: the first call
\* records them, the second call moves along the record
Recorded(r, x) ==
    IF r = NoVal THEN r
    ELSE IF r.call = 1 THEN [r EXCEPT !.draws = Append(@, x)]
    ELSE [r EXCEPT !.pos = @ + 1]

\* the values player['momentum'] may hold when simulate_match is called
EntryMomentum == -4 .. 4

\* the locals of functions that are not running
NoMatchLocals ==
    /\ best_of = 0 /\ sets_to_win = 0 /\ next_set_server = 0
    /\ p1_stats = NoVal /\ p2_stats = NoVal

NoSetLocals ==
    /\ games_p1 = 0 /\ games_p2 = 0 /\ aces_p1 = 0 /\ aces_p2 = 0
    /\ df_p1 = 0 /\ df_p2 = 0
    /\ set_result = NoVal

NoGameLocals ==
    /\ server_points = 0 /\ receiver_points = 0
    /\ server_aces = 0 /\ server_double_faults = 0
    /\ point_count = 0
    /\ game_info = NoVal /\ tb_info = NoVal

\* the point engine is not running
NoEngine == tennis_players = NoVal /\ points_played = 0 /\ point_obs = NoVal

\* simulate_match is about to be called on two player dictionaries
Init ==
    /\ pc = "idle"
    /\ \E m1 \in EntryMomentum, m2 \in EntryMomentum :
        \E d1 \in {EmptyStats, sinner_base_stats}, d2 \in {EmptyStats, alcaraz_base_stats} :
          /\ player1 = [FreshPlayer(sinner_base_stats) EXCEPT !.momentum = m1,
                                                                !.daily_stats = d1]
          /\ player2 = [FreshPlayer(alcaraz_base_stats) EXCEPT !.momentum = m2,
                                                                 !.daily_stats = d2]
    /\ NoMatchLocals /\ NoSetLocals /\ NoGameLocals
    /\ next_server = 0
    /\ current_server = "none"
    /\ hist = InitHist
    /\ NoEngine

\* the player dictionary a 1/2 index denotes
PlayerOf(i) == IF i = 1 THEN player1 ELSE player2

\* ------------------------------------------------------------------------
\* simulate_game and simulate_tiebreak as functions of the random draws
\* ------------------------------------------------------------------------
\* a draw is the triple <<roll, roll2, roll3>> one call of simulate_point may consume
PointDraws == Rolls \X Rolls \X Rolls

\* the locals of simulate_game on entry
ZeroGame == [server_points |-> 0, receiver_points |-> 0,
             server_aces |-> 0, server_double_faults |-> 0]

\* the loop body without the "else" that counts the receiver's points
game_step_server_only(g, pt) ==
    [server_points |-> IF pt.point_won THEN g.server_points + 1 ELSE g.server_points,
     receiver_points |-> g.receiver_points,
     server_aces |-> IF pt.point_won /\ pt.is_ace THEN g.server_aces + 1 ELSE g.server_aces,
     server_double_faults |-> IF pt.is_df THEN g.server_double_faults + 1
                                          ELSE g.server_double_faults]

\* body of the while loop of simulate_game up to the check of the score
game_step(g, pt) ==
    [server_points |-> IF pt.point_won THEN g.server_points + 1 ELSE g.server_points,
     receiver_points |-> IF pt.point_won THEN g.receiver_points ELSE g.receiver_points + 1,
     server_aces |-> IF pt.point_won /\ pt.is_ace THEN g.server_aces + 1 ELSE g.server_aces,
     server_double_faults |-> IF pt.is_df THEN g.server_double_faults + 1
                                          ELSE g.server_double_faults]

\* the game check without the lead of 2
game_decided_no_lead(g) == g.server_points >= 4 \/ g.receiver_points >= 4

\* "game is decided (win by 2 and at least 4 points)"
game_decided(g) ==
    /\ (g.server_points >= 4 \/ g.receiver_points >= 4)
    /\ Abs(g.server_points - g.receiver_points) >= 2

\* the dictionary simulate_game and simulate_tiebreak return
GameInfo(g) ==
    [winner |-> IF g.server_points > g.receiver_points THEN "server" ELSE "receiver",
     server_aces |-> g.server_aces,
     server_double_faults |-> g.server_double_faults]

\* the locals of simulate_tiebreak on entry
ZeroTiebreak == [server_points |-> 0, receiver_points |-> 0,
                 server_aces |-> 0, server_double_faults |-> 0,
                 current_server |-> "server", point_count |-> 0]

\* the rotation of service at the end of a tiebreak point
tiebreak_rotate(cur, pcount) ==
    IF pcount = 1 \/ (pcount > 1 /\ (pcount - 1) % 4 = 0)
      THEN (IF cur = "server" THEN "receiver" ELSE "server")
      ELSE cur

\* body of the while loop of simulate_tiebreak up to the check of the score;
\* pt is the point served by t.current_server
tiebreak_step(t, pt) ==
    LET bySrv == t.current_server = "server"
        srvWins == bySrv = pt.point_won
    IN  [server_points |-> IF srvWins THEN t.server_points + 1 ELSE t.server_points,
         receiver_points |-> IF srvWins THEN t.receiver_points ELSE t.receiver_points + 1,
         server_aces |-> IF bySrv /\ pt.point_won /\ pt.is_ace
                           THEN t.server_aces + 1 ELSE t.server_aces,
         server_double_faults |-> IF bySrv /\ pt.is_df
                                    THEN t.server_double_faults + 1
                                    ELSE t.server_double_faults,
         current_server |-> tiebreak_rotate(t.current_server, t.point_count + 1),
         point_count |-> t.point_count + 1]

\* the tiebreak check without the lead of 2
tiebreak_decided_no_lead(t) == t.server_points >= 7 \/ t.receiver_points >= 7

\* "first to 7, win by 2"
tiebreak_decided(t) ==
    /\ (t.server_points >= 7 \/ t.receiver_points >= 7)
    /\ Abs(t.server_points - t.receiver_points) >= 2

RECURSIVE simulate_game_from(_, _, _, _, _)
\* the while loop of simulate_game from locals g, consuming draws[i], draws[i+1], ...;
\* trace lists the points played
simulate_game_from(server, g, draws, i, trace) ==
    IF i > Len(draws)
      THEN [returned |-> FALSE, consumed |-> i - 1, locals |-> g, trace |-> trace,
            server |-> server]
      ELSE LET pt == simulate_point(server, draws[i][1], draws[i][2], draws[i][3])
               g2 == game_step(g, pt)
               tr == Append(trace, [by |-> "server", pt |-> pt])
           IN  IF game_decided(g2)
                 THEN [returned |-> TRUE, consumed |-> i, locals |-> g2, trace |-> tr,
                       server |-> after_point(server)]
                 ELSE simulate_game_from(after_point(server), g2, draws, i + 1, tr)

\* the game with its points simulated on the receiver's dictionary
simulate_game_on_receiver(server, receiver, draws) ==
    simulate_game_from(receiver, ZeroGame, draws, 1, << >>)

\* simulate_game(server, receiver) run on the given random draws
simulate_game(server, receiver, draws) ==
    simulate_game_from(server, ZeroGame, draws, 1, << >>)

RECURSIVE simulate_tiebreak_from(_, _, _, _, _, _)
simulate_tiebreak_from(server, receiver, t, draws, i, trace) ==
    IF i > Len(draws)
      THEN [returned |-> FALSE, consumed |-> i - 1, locals |-> t, trace |-> trace,
            server |-> server, receiver |-> receiver]
      ELSE LET who == IF t.current_server = "server" THEN server ELSE receiver
               pt == simulate_point(who, draws[i][1], draws[i][2], draws[i][3])
               t2 == tiebreak_step(t, pt)
               tr == Append(trace, [by |-> t.current_server, pt |-> pt])
               server2 == IF t.current_server = "server" THEN after_point(server)
                                                         ELSE server
               receiver2 == IF t.current_server = "server" THEN receiver
                                                           ELSE after_point(receiver)
           IN  IF tiebreak_decided(t2)
                 THEN [returned |-> TRUE, consumed |-> i, locals |-> t2, trace |-> tr,
                       server |-> server2, receiver |-> receiver2]
                 ELSE simulate_tiebreak_from(server2, receiver2, t2, draws, i + 1, tr)

\* simulate_tiebreak(server, receiver) run on the given random draws
simulate_tiebreak(server, receiver, draws) ==
    simulate_tiebreak_from(server, receiver, ZeroTiebreak, draws, 1, << >>)

\* number of points of a trace served by `by` that satisfy the flag
RECURSIVE CountServed(_, _, _)
CountServed(trace, by, flag) ==
    IF trace = << >> THEN 0
    ELSE (IF Head(trace).by = by /\ Head(trace).pt[flag] THEN 1 ELSE 0)
           + CountServed(Tail(trace), by, flag)

\* Draw triples named by what they make of a point when 0 < probability < 1.
DrawDF == << 0, 0, 0 >>

DrawAce == << Scale - 1, 0, 0 >>

DrawWin == << Scale - 1, Scale - 1, 0 >>

DrawLose == << Scale - 1, Scale - 1, Scale - 1 >>

\* The draw sequences a game of a match is played on: a hold and a break to
\* love, a hold and a break after deuce.
GameDraws ==
    { << DrawWin, DrawWin, DrawWin, DrawWin >>,
      << DrawLose, DrawLose, DrawLose, DrawLose >>,
      << DrawWin, DrawWin, DrawWin, DrawLose, DrawLose, DrawLose, DrawWin, DrawWin >>,
      << DrawWin, DrawWin, DrawWin, DrawLose, DrawLose, DrawLose, DrawLose, DrawLose >> }

\* The draw sequences a tiebreak of a match is played on (who wins a point
\* depends on who serves it, which the rotation decides): 7-0 and 8-6 for the
\* nominal server, 0-7 for the receiver.
TiebreakDraws ==
    { << DrawWin, DrawLose, DrawLose, DrawLose, DrawLose, DrawWin, DrawWin >>,
      << DrawLose, DrawWin, DrawWin, DrawWin, DrawWin, DrawLose, DrawLose >>,
      << DrawWin, DrawWin, DrawLose, DrawWin, DrawLose, DrawLose, DrawWin,
         DrawLose, DrawWin, DrawWin, DrawLose, DrawWin, DrawLose, DrawWin >> }

\* The draw sequences of the matches whose aces and double faults are
\* tallied: holds with and without an ace or a double fault, and a break on
\* a double fault.
TallyGameDraws ==
    { << DrawWin, DrawWin, DrawWin, DrawWin >>,
      << DrawAce, DrawWin, DrawWin, DrawWin >>,
      << DrawDF, DrawWin, DrawWin, DrawWin, DrawWin >>,
      << DrawDF, DrawLose, DrawLose, DrawLose >> }

\* Tiebreaks with an ace or a double fault served by either player.
TallyTiebreakDraws ==
    { << DrawWin, DrawLose, DrawLose, DrawLose, DrawLose, DrawWin, DrawWin >>,
      << DrawLose, DrawWin, DrawWin, DrawWin, DrawWin, DrawLose, DrawLose >>,
      << DrawAce, DrawLose, DrawLose, DrawLose, DrawLose, DrawWin, DrawWin >>,
      << DrawWin, DrawAce, DrawLose, DrawLose, DrawLose, DrawWin, DrawWin, DrawWin >>,
      << DrawDF, DrawWin, DrawWin, DrawWin, DrawWin, DrawLose, DrawLose >>,
      << DrawWin, DrawDF, DrawLose, DrawLose, DrawLose, DrawWin, DrawWin >> }

\* ------------------------------------------------------------------------
\* simulate_match
\* ------------------------------------------------------------------------
\* the number of sets to win without the "+ 1"
SetsToWin_half(bo) == bo \div 2

\* "Determine how many sets to win."
SetsToWin(bo) == bo \div 2 + 1

\* the entry of a match that leaves the momentum as the caller passed it
match_entry_keep_momentum(player, serve_form, return_form) ==
    [player EXCEPT
       !.daily_stats = generate_daily_stats(player.base_stats, serve_form, return_form),
       !.base_stats = generate_daily_stats_input(player.base_stats, serve_form,
                                                 return_form)]

\* "Each match, players start with momentum = 0" and "Generate today's stats
\* for each player": the player dictionary after the entry of simulate_match
match_entry(player, serve_form, return_form) ==
    [player EXCEPT
       !.momentum = 0,
       !.daily_stats = generate_daily_stats(player.base_stats, serve_form, return_form),
       !.base_stats = generate_daily_stats_input(player.base_stats, serve_form,
                                                 return_form)]

\* the loop condition with "or" in place of "and"
match_continues_either(sets_won1, sets_won2, to_win) ==
    sets_won1 < to_win \/ sets_won2 < to_win

\* the condition of the while loop of simulate_match
match_continues(sets_won1, sets_won2, to_win) == sets_won1 < to_win /\ sets_won2 < to_win

\* Entry of simulate_match up to its while loop.
MatchStart(bo, serve_form1, return_form1, serve_form2, return_form2) ==
    /\ pc = "idle"
    /\ p1_stats' = InitStats
    /\ p2_stats' = InitStats
    /\ player1' = match_entry(player1, serve_form1, return_form1)
    /\ player2' = match_entry(player2, serve_form2, return_form2)
    /\ best_of' = bo
    /\ sets_to_win' = SetsToWin(bo)
    /\ next_set_server' = 1
    /\ hist' = [InitHist EXCEPT
                  !.gen_calls = <<1, 1>>,
                  !.replay = Recorded(hist.replay, << bo, serve_form1, return_form1,
                                                      serve_form2, return_form2 >>)]
    /\ pc' = "match_loop"
    /\ UNCHANGED << setVars, gameVars, engineVars, game_info, tb_info, set_result >>

\* The while condition of simulate_match holds: simulate_set is entered.
SetStart ==
    /\ pc = "match_loop"
    /\ match_continues(p1_stats.sets_won, p2_stats.sets_won, sets_to_win)
    /\ games_p1' = 0 /\ games_p2' = 0
    /\ aces_p1' = 0 /\ aces_p2' = 0
    /\ df_p1' = 0 /\ df_p2' = 0
    /\ next_server' = next_set_server
    /\ hist' = [hist EXCEPT !.sets_started = @ + 1, !.tiebreaks = 0,
                             !.set_servers = Append(@, next_set_server),
                             !.game_servers = << >>]
    /\ pc' = "set_loop"
    /\ UNCHANGED << player1, player2, matchVars, gameVars, engineVars, game_info, tb_info,
                    set_result >>

\* the return of simulate_match with the sets won to love counted as clean sets
MatchReturn_clean_sets ==
    /\ pc = "match_loop"
    /\ ~ match_continues(p1_stats.sets_won, p2_stats.sets_won, sets_to_win)
    /\ LET p1won == p1_stats.sets_won > p2_stats.sets_won
           r == hist.set_results
           clean1 == Cardinality({ k \in 1 .. Len(r) : r[k].games_won_by_p2 = 0 })
           clean2 == Cardinality({ k \in 1 .. Len(r) : r[k].games_won_by_p1 = 0 })
       IN  /\ p1_stats' = [sets_won |-> p1_stats.sets_won, games_won |-> p1_stats.games_won,
                           aces |-> p1_stats.aces, double_faults |-> p1_stats.double_faults,
                           breaks |-> p1_stats.breaks, clean_sets |-> clean1,
                           match_won |-> p1won,
                           sets_lost |-> p2_stats.sets_won,
                           games_lost |-> p2_stats.games_won]
           /\ p2_stats' = [sets_won |-> p2_stats.sets_won, games_won |-> p2_stats.games_won,
                           aces |-> p2_stats.aces, double_faults |-> p2_stats.double_faults,
                           breaks |-> p2_stats.breaks, clean_sets |-> clean2,
                           match_won |-> ~ p1won,
                           sets_lost |-> p1_stats.sets_won,
                           games_lost |-> p1_stats.games_won]
    /\ pc' = "done"
    /\ UNCHANGED << player1, player2, best_of, sets_to_win, next_set_server, setVars,
                    gameVars, engineVars, game_info, tb_info, set_result, hist >>

\* The while condition fails: the winner is decided and the results returned.
MatchReturn ==
    /\ pc = "match_loop"
    /\ ~ match_continues(p1_stats.sets_won, p2_stats.sets_won, sets_to_win)
    /\ LET p1won == p1_stats.sets_won > p2_stats.sets_won
       IN  /\ p1_stats' = [sets_won |-> p1_stats.sets_won, games_won |-> p1_stats.games_won,
                           aces |-> p1_stats.aces, double_faults |-> p1_stats.double_faults,
                           breaks |-> p1_stats.breaks, clean_sets |-> p1_stats.clean_sets,
                           match_won |-> p1won,
                           sets_lost |-> p2_stats.sets_won,
                           games_lost |-> p2_stats.games_won]
           /\ p2_stats' = [sets_won |-> p2_stats.sets_won, games_won |-> p2_stats.games_won,
                           aces |-> p2_stats.aces, double_faults |-> p2_stats.double_faults,
                           breaks |-> p2_stats.breaks, clean_sets |-> p2_stats.clean_sets,
                           match_won |-> ~ p1won,
                           sets_lost |-> p1_stats.sets_won,
                           games_lost |-> p1_stats.games_won]
    /\ pc' = "done"
    /\ UNCHANGED << player1, player2, best_of, sets_to_win, next_set_server, setVars,
                    gameVars, engineVars, game_info, tb_info, set_result, hist >>

\* the starting server of every set is the one of the first set
NextSetServer_keep(server) == server

\* "next_set_server = 1 if next_set_server == 2 else 2"
NextSetServer(server) == IF server = 2 THEN 1 ELSE 2

\* the update of the match tallies with "=" in place of "+=" for the aces
SetEnd_overwrite_aces ==
    /\ pc = "set_ret"
    /\ p1_stats' = [p1_stats EXCEPT
                      !.games_won = @ + set_result.games_won_by_p1,
                      !.aces = set_result.aces_by_p1,
                      !.double_faults = @ + set_result.df_by_p1,
                      !.sets_won = IF set_result.winner = 1 THEN @ + 1 ELSE @]
    /\ p2_stats' = [p2_stats EXCEPT
                      !.games_won = @ + set_result.games_won_by_p2,
                      !.aces = set_result.aces_by_p2,
                      !.double_faults = @ + set_result.df_by_p2,
                      !.sets_won = IF set_result.winner = 1 THEN @ ELSE @ + 1]
    /\ next_set_server' = NextSetServer(next_set_server)
    /\ hist' = [hist EXCEPT !.set_results = Append(@, set_result),
                             !.last_servers = Append(@, next_server)]
    /\ pc' = "match_loop"
    /\ UNCHANGED << player1, player2, best_of, sets_to_win, setVars, gameVars, engineVars,
                    game_info, tb_info, set_result >>

\* simulate_set has returned: the match tallies are updated.
SetEnd ==
    /\ pc = "set_ret"
    /\ p1_stats' = [p1_stats EXCEPT
                      !.games_won = @ + set_result.games_won_by_p1,
                      !.aces = @ + set_result.aces_by_p1,
                      !.double_faults = @ + set_result.df_by_p1,
                      !.sets_won = IF set_result.winner = 1 THEN @ + 1 ELSE @]
    /\ p2_stats' = [p2_stats EXCEPT
                      !.games_won = @ + set_result.games_won_by_p2,
                      !.aces = @ + set_result.aces_by_p2,
                      !.double_faults = @ + set_result.df_by_p2,
                      !.sets_won = IF set_result.winner = 1 THEN @ ELSE @ + 1]
    /\ next_set_server' = NextSetServer(next_set_server)
    /\ hist' = [hist EXCEPT !.set_results = Append(@, set_result),
                             !.last_servers = Append(@, next_server)]
    /\ pc' = "match_loop"
    /\ UNCHANGED << player1, player2, best_of, sets_to_win, setVars, gameVars, engineVars,
                    game_info, tb_info, set_result >>

\* ------------------------------------------------------------------------
\* simulate_set
\* ------------------------------------------------------------------------
\* the dictionary simulate_set returns
SetResult(g1, g2, a1, a2, d1, d2) ==
    [winner |-> IF g1 > g2 THEN 1 ELSE 2,
     games_won_by_p1 |-> g1, games_won_by_p2 |-> g2,
     aces_by_p1 |-> a1, aces_by_p2 |-> a2,
     df_by_p1 |-> d1, df_by_p2 |-> d2]

\* the set check with a 1-game lead
set_decided_by_one(g1, g2) == (g1 >= 6 \/ g2 >= 6) /\ Abs(g1 - g2) >= 1

\* "set is won (6+ games with at least 2-game lead)"
set_decided(g1, g2) == (g1 >= 6 \/ g2 >= 6) /\ Abs(g1 - g2) >= 2

\* the server of a game serves the next game too
NextGameServer_keep(server) == server

\* "next_server = 1 if next_server == 2 else 2" at the end of an iteration
NextGameServer(server) == IF server = 2 THEN 1 ELSE 2

\* the momentum update made after every game, held or broken
MomentumAfter_every_game(srv, winner) ==
    IF srv = 1
      THEN << update_momentum(player1.momentum, "lose_break"),
              update_momentum(player2.momentum, "win_break") >>
      ELSE << update_momentum(player1.momentum, "win_break"),
              update_momentum(player2.momentum, "lose_break") >>

\* momentum of both players after a game or tiebreak served by srv
MomentumAfter(srv, winner) ==
    IF winner = "server"
      THEN << player1.momentum, player2.momentum >>
      ELSE IF srv = 1
        THEN << update_momentum(player1.momentum, "lose_break"),
                update_momentum(player2.momentum, "win_break") >>
        ELSE << update_momentum(player1.momentum, "win_break"),
                update_momentum(player2.momentum, "lose_break") >>

\* the history after the points of trace, the nominal server being player srv
HistAfter(h, srv, trace) ==
    [h EXCEPT
       !.point_played = TRUE,
       !.aces[srv] = @ + CountServed(trace, "server", "is_ace"),
       !.aces[Other(srv)] = @ + CountServed(trace, "receiver", "is_ace"),
       !.dfs[srv] = @ + CountServed(trace, "server", "is_df"),
       !.dfs[Other(srv)] = @ + CountServed(trace, "receiver", "is_df")]

\* the match stays within the bounds on aces and double faults
WithinTallyBounds(h) ==
    /\ h.aces[1] + h.aces[2] <= MaxAces
    /\ h.dfs[1] + h.dfs[2] <= MaxDoubleFaults

\* the tallies of simulate_set after the game or tiebreak served by srv:
\* the winner takes the game, the aces and double faults go to the server
SetTally(srv, info) ==
    LET held == info.winner = "server"
    IN  [games_p1 |-> IF (srv = 1) = held THEN games_p1 + 1 ELSE games_p1,
         games_p2 |-> IF (srv = 2) = held THEN games_p2 + 1 ELSE games_p2,
         aces_p1 |-> IF srv = 1 THEN aces_p1 + info.server_aces ELSE aces_p1,
         aces_p2 |-> IF srv = 2 THEN aces_p2 + info.server_aces ELSE aces_p2,
         df_p1 |-> IF srv = 1 THEN df_p1 + info.server_double_faults ELSE df_p1,
         df_p2 |-> IF srv = 2 THEN df_p2 + info.server_double_faults ELSE df_p2]

\* One iteration of the while loop of simulate_set: the game served by
\* next_server is played on the given draws, then the set is checked.  At 6-6
\* the iteration goes on with the tie-break (PlayTiebreak).
PlayGame(draws) ==
    /\ pc = "set_loop"
    /\ \E run \in {simulate_game(PlayerOf(next_server), PlayerOf(Other(next_server)), draws)} :
        /\ run.returned
        /\ run.consumed = Len(draws)
        /\ \E info \in {GameInfo(run.locals)} :
            \E t \in {SetTally(next_server, info)},
               mom \in {MomentumAfter(next_server, info.winner)},
               h \in {HistAfter(hist, next_server, run.trace)} :
              /\ WithinTallyBounds(h)
              /\ game_info' = info
              /\ games_p1' = t.games_p1 /\ games_p2' = t.games_p2
              /\ aces_p1' = t.aces_p1 /\ aces_p2' = t.aces_p2
              /\ df_p1' = t.df_p1 /\ df_p2' = t.df_p2
              /\ player1' = [(IF next_server = 1 THEN run.server ELSE player1)
                               EXCEPT !.momentum = mom[1]]
              /\ player2' = [(IF next_server = 2 THEN run.server ELSE player2)
                               EXCEPT !.momentum = mom[2]]
              /\ hist' = [h EXCEPT !.game_servers = Append(@, next_server),
                                    !.replay = Recorded(@, draws)]
              /\ IF set_decided(t.games_p1, t.games_p2)
                   THEN /\ set_result' = SetResult(t.games_p1, t.games_p2, t.aces_p1,
                                                   t.aces_p2, t.df_p1, t.df_p2)
                        /\ pc' = "set_ret"
                        /\ UNCHANGED next_server
                 ELSE IF t.games_p1 = 6 /\ t.games_p2 = 6
                   THEN /\ pc' = "set_tiebreak"
                        /\ UNCHANGED << next_server, set_result >>
                 ELSE /\ next_server' = NextGameServer(next_server)
                      /\ pc' = "set_loop"
                      /\ UNCHANGED set_result
    /\ UNCHANGED << matchVars, gameVars, engineVars, tb_info >>

\* "Tie-break if 6-6": the tiebreak is played on the given draws and
\* simulate_set returns.
PlayTiebreak(draws) ==
    /\ pc = "set_tiebreak"
    /\ \E run \in {simulate_tiebreak(PlayerOf(next_server), PlayerOf(Other(next_server)),
                                     draws)} :
        /\ run.returned
        /\ run.consumed = Len(draws)
        /\ \E info \in {GameInfo(run.locals)} :
            \E t \in {SetTally(next_server, info)},
               mom \in {MomentumAfter(next_server, info.winner)},
               h \in {HistAfter(hist, next_server, run.trace)} :
              /\ WithinTallyBounds(h)
              /\ tb_info' = info
              /\ games_p1' = t.games_p1 /\ games_p2' = t.games_p2
              /\ aces_p1' = t.aces_p1 /\ aces_p2' = t.aces_p2
              /\ df_p1' = t.df_p1 /\ df_p2' = t.df_p2
              /\ player1' = [(IF next_server = 1 THEN run.server ELSE run.receiver)
                               EXCEPT !.momentum = mom[1]]
              /\ player2' = [(IF next_server = 2 THEN run.server ELSE run.receiver)
                               EXCEPT !.momentum = mom[2]]
              /\ hist' = [h EXCEPT !.tiebreaks = @ + 1,
                                    !.tb_score = << games_p1, games_p2 >>,
                                    !.replay = Recorded(@, draws)]
              /\ set_result' = SetResult(t.games_p1, t.games_p2, t.aces_p1,
                                         t.aces_p2, t.df_p1, t.df_p2)
    /\ pc' = "set_ret"
    /\ UNCHANGED << matchVars, next_server, gameVars, engineVars, game_info >>

\* ------------------------------------------------------------------------
\* The batch loop: fresh player dictionaries for the next match
\* ------------------------------------------------------------------------
BatchNext ==
    /\ pc = "done"
    /\ player1' = FreshPlayer(player1.base_stats)
    /\ player2' = FreshPlayer(player2.base_stats)
    /\ pc' = "idle"
    /\ best_of' = 0 /\ sets_to_win' = 0 /\ next_set_server' = 0
    /\ p1_stats' = NoVal /\ p2_stats' = NoVal
    /\ games_p1' = 0 /\ games_p2' = 0 /\ aces_p1' = 0 /\ aces_p2' = 0
    /\ df_p1' = 0 /\ df_p2' = 0 /\ next_server' = 0
    /\ game_info' = NoVal /\ tb_info' = NoVal /\ set_result' = NoVal
    /\ hist' = InitHist
    /\ UNCHANGED << gameVars, engineVars >>

Next ==
    \/ \E bo \in BestOfValues, f \in FormDraws : MatchStart(bo, f[1], f[2], f[3], f[4])
    \/ SetStart
    \/ \E draws \in GameDraws : PlayGame(draws)
    \/ \E draws \in TiebreakDraws : PlayTiebreak(draws)
    \/ SetEnd
    \/ MatchReturn
    \/ BatchNext

Spec == Init /\ [][Next]_vars

\* The matches whose aces and double faults are tallied.
NextTally ==
    \/ \E bo \in BestOfValues, f \in FormDraws : MatchStart(bo, f[1], f[2], f[3], f[4])
    \/ SetStart
    \/ \E draws \in TallyGameDraws : PlayGame(draws)
    \/ \E draws \in TallyTiebreakDraws : PlayTiebreak(draws)
    \/ SetEnd
    \/ MatchReturn
    \/ BatchNext

SpecTally == Init /\ [][NextTally]_vars

\* ------------------------------------------------------------------------
\* Two calls of simulate_match on the same random draws
\* ------------------------------------------------------------------------
\* the games of a replayed match are bounded
MaxReplayGames == 8

\* a draw that wins the point for a server in form whose momentum is not
\* negative and loses it otherwise
DrawMid == << Scale - 1, Scale - 1, (85 * Scale) \div 100 >>

\* games of a replayed match: a break to love, and a game whose winner
\* depends on the form and the momentum of the server
ReplayGameDraws ==
    { << DrawLose, DrawLose, DrawLose, DrawLose >>,
      << DrawMid, DrawMid, DrawMid, DrawMid >>,
      << DrawWin, DrawMid, DrawMid, DrawMid, DrawMid >> }

\* what the momentum and daily_stats of a player dictionary may hold when
\* simulate_match is called
ReplayEntries(base_stats) ==
    { [FreshPlayer(base_stats) EXCEPT !.momentum = 3],
      [FreshPlayer(base_stats) EXCEPT
         !.momentum = -4,
         !.daily_stats = generate_daily_stats(base_stats, FormMin, FormMax)] }

\* the draws x are those the first call consumed at the same position
SameDraws(x) ==
    LET r == hist.replay
    IN  IF r.call = 1 THEN TRUE
        ELSE r.pos < Len(r.draws) /\ r.draws[r.pos + 1] = x

InitReplay ==
    /\ pc = "idle"
    /\ player1 \in ReplayEntries(sinner_base_stats)
    /\ player2 \in ReplayEntries(alcaraz_base_stats)
    /\ NoMatchLocals /\ NoSetLocals /\ NoGameLocals
    /\ next_server = 0
    /\ current_server = "none"
    /\ hist = [InitHist EXCEPT
                 !.replay = [call |-> 1, draws |-> << >>, pos |-> 0, result |-> NoVal,
                             entry |-> NoVal]]
    /\ NoEngine

\* The first call has returned: simulate_match is called again on player
\* dictionaries with the same base stats, which are those the first call
\* left or hold any other momentum and daily_stats.
SecondCall ==
    /\ pc = "done"
    /\ hist.replay.call = 1
    /\ player1' \in {player1} \cup ReplayEntries(player1.base_stats)
    /\ player2' \in {player2} \cup ReplayEntries(player2.base_stats)
    /\ pc' = "idle"
    /\ best_of' = 0 /\ sets_to_win' = 0 /\ next_set_server' = 0
    /\ p1_stats' = NoVal /\ p2_stats' = NoVal
    /\ games_p1' = 0 /\ games_p2' = 0 /\ aces_p1' = 0 /\ aces_p2' = 0
    /\ df_p1' = 0 /\ df_p2' = 0 /\ next_server' = 0
    /\ game_info' = NoVal /\ tb_info' = NoVal /\ set_result' = NoVal
    /\ hist' = [InitHist EXCEPT
                  !.replay = [hist.replay EXCEPT
                                !.call = 2,
                                !.result = << p1_stats, p2_stats >>,
                                !.entry = << player1', player2' >>]]
    /\ UNCHANGED << gameVars, engineVars >>

NextReplay ==
    \/ \E bo \in {1}, f \in FormDraws :
         /\ pc = "idle"
         /\ SameDraws(<< bo, f[1], f[2], f[3], f[4] >>)
         /\ MatchStart(bo, f[1], f[2], f[3], f[4])
    \/ SetStart
    \/ \E draws \in ReplayGameDraws :
         /\ pc = "set_loop"
         /\ games_p1 + games_p2 < MaxReplayGames
         /\ SameDraws(draws)
         /\ PlayGame(draws)
    \/ SetEnd
    \/ MatchReturn
    \/ SecondCall

SpecReplay == InitReplay /\ [][NextReplay]_vars

\* ------------------------------------------------------------------------
\* simulate_game and simulate_tiebreak point by point
\* ------------------------------------------------------------------------
\* the momentum of the two players when a game or tiebreak is entered
MomentumPairs == { << m, -m >> : m \in -3 .. 3 }

\* two players on their match day
GamePlayers ==
    \E mom \in MomentumPairs, f \in FormDraws :
      /\ player1 = [FreshPlayer(sinner_base_stats) EXCEPT
                      !.momentum = mom[1],
                      !.daily_stats = generate_daily_stats(sinner_base_stats, f[1], f[2])]
      /\ player2 = [FreshPlayer(alcaraz_base_stats) EXCEPT
                      !.momentum = mom[2],
                      !.daily_stats = generate_daily_stats(alcaraz_base_stats, f[3], f[4])]

\* simulate_game(server, receiver) is entered, next_server naming the server
InitGame ==
    /\ pc = "game"
    /\ GamePlayers
    /\ next_server \in Players
    /\ NoMatchLocals /\ NoSetLocals /\ NoGameLocals
    /\ current_server = "none"
    /\ hist = InitHist
    /\ NoEngine

\* the locals of the running game or tiebreak
GameLocals == [server_points |-> server_points, receiver_points |-> receiver_points,
               server_aces |-> server_aces, server_double_faults |-> server_double_faults]

TiebreakLocals == [server_points |-> server_points, receiver_points |-> receiver_points,
                   server_aces |-> server_aces,
                   server_double_faults |-> server_double_faults,
                   current_server |-> current_server, point_count |-> point_count]

\* One iteration of the while loop of simulate_game.
GamePoint(roll, roll2, roll3) ==
    /\ pc = "game"
    /\ server_points + receiver_points < MaxGamePoints
    /\ \E pt \in {simulate_point(PlayerOf(next_server), roll, roll2, roll3)} :
        \E g \in {game_step(GameLocals, pt)} :
          /\ server_points' = g.server_points
          /\ receiver_points' = g.receiver_points
          /\ server_aces' = g.server_aces
          /\ server_double_faults' = g.server_double_faults
          /\ hist' = [hist EXCEPT !.point_played = TRUE]
          /\ IF game_decided(g)
               THEN /\ game_info' = GameInfo(g)
                    /\ pc' = "game_ret"
               ELSE /\ pc' = "game"
                    /\ UNCHANGED game_info
    /\ player1' = IF next_server = 1 THEN after_point(player1) ELSE player1
    /\ player2' = IF next_server = 2 THEN after_point(player2) ELSE player2
    /\ UNCHANGED << matchVars, setVars, current_server, point_count,
                    tb_info, set_result, engineVars >>

NextGame == \E d \in PointDraws : GamePoint(d[1], d[2], d[3])

SpecGame == InitGame /\ [][NextGame]_vars

\* simulate_tiebreak(server, receiver) is entered, next_server naming the
\* nominal starting server
InitTiebreak ==
    /\ pc = "tiebreak"
    /\ GamePlayers
    /\ next_server \in Players
    /\ NoMatchLocals /\ NoSetLocals /\ NoGameLocals
    /\ current_server = "server"
    /\ hist = InitHist
    /\ NoEngine

\* One iteration of the while loop of simulate_tiebreak.
TiebreakPoint(roll, roll2, roll3) ==
    /\ pc = "tiebreak"
    /\ point_count < MaxTiebreakPoints
    /\ \E who \in {IF current_server = "server" THEN next_server ELSE Other(next_server)} :
        \E pt \in {simulate_point(PlayerOf(who), roll, roll2, roll3)} :
          \E t \in {tiebreak_step(TiebreakLocals, pt)} :
            /\ server_points' = t.server_points
            /\ receiver_points' = t.receiver_points
            /\ server_aces' = t.server_aces
            /\ server_double_faults' = t.server_double_faults
            /\ current_server' = t.current_server
            /\ point_count' = t.point_count
            /\ hist' = [hist EXCEPT
                          !.point_played = TRUE,
                          !.tb_servers = Append(@, current_server),
                          !.tb_points[IF pt.point_won THEN who ELSE Other(who)] = @ + 1]
            /\ IF tiebreak_decided(t)
                 THEN /\ tb_info' = GameInfo(t)
                      /\ pc' = "tb_ret"
                 ELSE /\ pc' = "tiebreak"
                      /\ UNCHANGED tb_info
            /\ player1' = IF who = 1 THEN after_point(player1) ELSE player1
            /\ player2' = IF who = 2 THEN after_point(player2) ELSE player2
    /\ UNCHANGED << matchVars, setVars, game_info, set_result, engineVars >>

NextTiebreak == \E d \in PointDraws : TiebreakPoint(d[1], d[2], d[3])

SpecTiebreak == InitTiebreak /\ [][NextTiebreak]_vars

\* ------------------------------------------------------------------------
\* The first game of a set, played twice on the same draws
\* ------------------------------------------------------------------------
\* the draws of the game: breaks and holds that depend on the form and the
\* momentum of the server, with and without an ace or a double fault
PairGameDraws == ReplayGameDraws \cup TallyGameDraws

\* the states another receiver may be in: any momentum, the daily stats of
\* another day or those of the server
OtherReceivers(server, receiver) ==
    { [receiver EXCEPT !.momentum = m, !.daily_stats = d] :
        m \in {-3, 0, 3},
        d \in { generate_daily_stats(receiver.base_stats, FormMin, FormMin),
                generate_daily_stats(receiver.base_stats, FormMax, FormMax),
                server.daily_stats } }

\* simulate_set has been entered on two players on their match day
InitGamePair ==
    /\ pc = "set_loop"
    /\ GamePlayers
    /\ next_server \in Players
    /\ best_of = 1 /\ sets_to_win = 1 /\ next_set_server = next_server
    /\ p1_stats = InitStats /\ p2_stats = InitStats
    /\ NoSetLocals /\ NoGameLocals
    /\ current_server = "none"
    /\ hist = [InitHist EXCEPT
                 !.gen_calls = << 1, 1 >>, !.sets_started = 1,
                 !.set_servers = << next_server >>,
                 !.replay = [call |-> 1, draws |-> << >>, pos |-> 0, result |-> NoVal,
                             entry |-> << player1, player2 >>]]
    /\ NoEngine

\* the first game of the set is played
FirstGame(draws) ==
    /\ pc = "set_loop"
    /\ hist.replay.call = 1 /\ hist.replay.draws = << >>
    /\ PlayGame(draws)

\* The game is set up again with the server as it was and the receiver in
\* another state.
OtherReceiver ==
    /\ pc = "set_loop"
    /\ hist.replay.call = 1 /\ Len(hist.replay.draws) = 1
    /\ LET srv == hist.set_servers[1]
           entry == hist.replay.entry
       IN  /\ next_server' = srv
           /\ \E r \in OtherReceivers(entry[srv], entry[Other(srv)]) :
                /\ player1' = IF srv = 1 THEN entry[1] ELSE r
                /\ player2' = IF srv = 2 THEN entry[2] ELSE r
                /\ hist' = [InitHist EXCEPT
                              !.gen_calls = << 1, 1 >>, !.sets_started = 1,
                              !.set_servers = << srv >>,
                              !.replay = [hist.replay EXCEPT
                                            !.call = 2,
                                            !.result = game_info,
                                            !.entry = << player1', player2' >>]]
    /\ games_p1' = 0 /\ games_p2' = 0 /\ aces_p1' = 0 /\ aces_p2' = 0
    /\ df_p1' = 0 /\ df_p2' = 0
    /\ game_info' = NoVal
    /\ UNCHANGED << pc, matchVars, gameVars, engineVars, tb_info, set_result >>

\* the game is played again on the draws of the first game
SecondGame(draws) ==
    /\ pc = "set_loop"
    /\ hist.replay.call = 2 /\ hist.replay.pos = 0
    /\ SameDraws(draws)
    /\ PlayGame(draws)

NextGamePair ==
    \/ \E draws \in PairGameDraws : FirstGame(draws)
    \/ OtherReceiver
    \/ \E draws \in PairGameDraws : SecondGame(draws)

SpecGamePair == InitGamePair /\ [][NextGamePair]_vars

\* ------------------------------------------------------------------------
\* generate_daily_stats and simulate_point on arbitrary stats records
\* ------------------------------------------------------------------------
\* base stats records with every field in [0, 1]
BaseStatsDraws ==
    { [ FirstServePercentage |-> fsp,
        FirstServeWonPercentage |-> fsw,
        SecondServeWonPercentage |-> ssw,
        AcePercentage |-> v,
        DoubleFaultPercentage |-> v,
        ReturnPointsWonPercentage |-> v,
        BreakPointsConvertedPercentage |-> v ] :
        fsp \in {0, Scale}, fsw \in {0, Scale}, ssw \in {0, Scale},
        v \in {0, 9500, Scale} }
      \cup {sinner_base_stats, alcaraz_base_stats}

\* the draws of serve_form and of return_form
ServeForms == {FormMin, 100, FormMax}

ReturnForms == {FormMin, FormMax}

\* a player dictionary with any base stats and any momentum
InitPoint ==
    /\ pc = "point_idle"
    /\ \E base \in BaseStatsDraws, m \in -3 .. 3 :
          player1 = [FreshPlayer(base) EXCEPT !.momentum = m]
    /\ player2 = FreshPlayer(alcaraz_base_stats)
    /\ NoMatchLocals /\ NoSetLocals /\ NoGameLocals
    /\ next_server = 0
    /\ current_server = "none"
    /\ hist = InitHist
    /\ NoEngine

\* player['daily_stats'] = generate_daily_stats(player['base_stats'])
DailyStats(serve_form, return_form) ==
    /\ pc = "point_idle"
    /\ player1' = [player1 EXCEPT
                     !.daily_stats = generate_daily_stats(player1.base_stats,
                                                          serve_form, return_form),
                     !.base_stats = generate_daily_stats_input(player1.base_stats,
                                                               serve_form, return_form)]
    /\ hist' = [hist EXCEPT !.gen_calls[1] = @ + 1]
    /\ pc' = "point"
    /\ UNCHANGED << player2, matchVars, setVars, gameVars, engineVars, game_info, tb_info,
                    set_result >>

\* simulate_point(player) on the given draws
Point(roll, roll2, roll3) ==
    /\ pc = "point"
    /\ hist' = [hist EXCEPT
                  !.point_played = TRUE,
                  !.last_point = [roll |-> roll, roll2 |-> roll2, roll3 |-> roll3,
                                  result |-> simulate_point(player1, roll, roll2, roll3)]]
    /\ player1' = after_point(player1)
    /\ pc' = "point"
    /\ UNCHANGED << player2, matchVars, setVars, gameVars, engineVars, game_info, tb_info,
                    set_result >>

NextPoint ==
    \/ \E sf \in ServeForms, rf \in ReturnForms : DailyStats(sf, rf)
    \/ \E d \in PointDraws : Point(d[1], d[2], d[3])

SpecPoint == InitPoint /\ [][NextPoint]_vars

\* ------------------------------------------------------------------------
\* The point engine (setups/tennis_sim and simulators/tennis/sim224.py)
\* ------------------------------------------------------------------------
\* Statistics are percentages held as floats; PctUnit stands for 1 %, so a
\* percentage p is the integer p * PctUnit and 100 % is Scale.  A probability
\* in [0, 1] is in fixed point as before, so that x % and x / 100.0 are the
\* same integer.
PctUnit == 100

LEAGUE_AVG_ELO == 1500

\* ELO_ADJUSTMENT_FACTOR = 0.05, in percent
ELO_ADJUSTMENT_FACTOR == 5

MaxPoints == 2            \* calls of PointSimulator.simulate_point in one run

\* the identities of the two TennisPlayer objects
PlayerIds == {"iga", "aryna"}

iga_stats ==
    [ first_serve_in_pct |-> 6330, ace_rate_1st |-> 570, ace_rate_2nd |-> 200,
      double_fault_pct |-> 400, serve_and_volley_freq |-> 0,
      serve_and_volley_win_pct |-> 0, rally_1_3_win |-> 5420, rally_4_6_win |-> 5700,
      rally_7_9_win |-> 5520, rally_10plus_win |-> 6310, ace_rate_against |-> 440,
      return_RiPW |-> 5050 ]

sabalenka_stats ==
    [ first_serve_in_pct |-> 6570, ace_rate_1st |-> 320, ace_rate_2nd |-> 120,
      double_fault_pct |-> 290, serve_and_volley_freq |-> 50,
      serve_and_volley_win_pct |-> 6670, rally_1_3_win |-> 5260, rally_4_6_win |-> 5640,
      rally_7_9_win |-> 5030, rally_10plus_win |-> 5420, ace_rate_against |-> 430,
      return_RiPW |-> 5860 ]

\* a stats dictionary whose serve and rally rates are 100 % and whose
\* defensive rates are 0 %
top_stats ==
    [ first_serve_in_pct |-> 50 * PctUnit, ace_rate_1st |-> 100 * PctUnit,
      ace_rate_2nd |-> 100 * PctUnit, double_fault_pct |-> 50 * PctUnit,
      serve_and_volley_freq |-> 100 * PctUnit, serve_and_volley_win_pct |-> 100 * PctUnit,
      rally_1_3_win |-> 100 * PctUnit, rally_4_6_win |-> 100 * PctUnit,
      rally_7_9_win |-> 100 * PctUnit, rally_10plus_win |-> 100 * PctUnit,
      ace_rate_against |-> 0, return_RiPW |-> 0 ]

\* a stats dictionary without the keys ace_rate_against and return_RiPW
serve_only_stats ==
    [ first_serve_in_pct |-> 6570, ace_rate_1st |-> 320, ace_rate_2nd |-> 120,
      double_fault_pct |-> 290, serve_and_volley_freq |-> 50,
      serve_and_volley_win_pct |-> 6670, rally_1_3_win |-> 5260, rally_4_6_win |-> 5640,
      rally_7_9_win |-> 5030, rally_10plus_win |-> 5420 ]

\* a stats dictionary without the key ace_rate_1st
no_ace_rate_stats ==
    [ first_serve_in_pct |-> 6330, ace_rate_2nd |-> 200,
      double_fault_pct |-> 400, serve_and_volley_freq |-> 0,
      serve_and_volley_win_pct |-> 0, rally_1_3_win |-> 5420, rally_4_6_win |-> 5700,
      rally_7_9_win |-> 5520, rally_10plus_win |-> 6310, ace_rate_against |-> 440,
      return_RiPW |-> 5050 ]

\* the stats dictionaries and Elo ratings << stats, elo, stats, elo >> the two
\* players are built with; the first is the one of run_sim.main
Matchups ==
    { << iga_stats, 2050, sabalenka_stats, 2000 >>,
      << sabalenka_stats, 1500, iga_stats, 2500 >>,
      << top_stats, 2050, top_stats, 2000 >>,
      << top_stats, 2000, serve_only_stats, 2000 >>,
      << serve_only_stats, 2050, serve_only_stats, 2000 >>,
      << no_ace_rate_stats, 2050, sabalenka_stats, 2000 >> }

\* TennisPlayer.__init__
TennisPlayer(name, elo, stats) ==
    [ name |-> name, elo |-> elo, stats |-> stats,
      point_stats |-> [ k \in { "Aces", "Double Faults", "Serve & Volley Wins",
                               "Serve & Volley Losses", "Points Won on Serve",
                               "Rally Wins as Server", "Rally Wins as Receiver" } |-> 0 ] ]

\* stats.get(key, default) and the keys it replaced by the default
Get(stats, key, default) == IF key \in DOMAIN stats THEN stats[key] ELSE default

Defaulted(stats, key) == IF key \in DOMAIN stats THEN {} ELSE {key}

\* x * elo_factor, with
\* elo_factor = 1 + ELO_ADJUSTMENT_FACTOR * ((server.elo - receiver.elo) / LEAGUE_AVG_ELO)
EloScaled(x, server, receiver) ==
    (x * (100 * LEAGUE_AVG_ELO + ELO_ADJUSTMENT_FACTOR * (server.elo - receiver.elo)))
      \div (100 * LEAGUE_AVG_ELO)

\* random.uniform(a, b) is a + (b - a) * random.random()
uniform(a, b, roll) == a + ((b - a) * roll) \div Scale

\* the ace chance of a first or second serve: Elo-scaled base rate less half
\* the receiver's ace_rate_against, times the variance, floored at 0.5 %
effective_ace_chance(base_ace, server, receiver, roll) ==
    Max2(PctUnit \div 2,
         ((EloScaled(base_ace, server, receiver)
             - Get(receiver.stats, "ace_rate_against", 0) \div 2)
            * uniform(90, 110, roll)) \div 100)

\* an outcome returned without the increment of its counter
Outcome_uncounted(outcome, counter, compared, defaulted) ==
    [ outcome |-> outcome, counter |-> "", compared |-> compared,
      defaulted |-> defaulted, key |-> "" ]

\* what a serve or rally simulation did: its return value, the counter of the
\* server it incremented, the probabilities it compared with a draw, the
\* keys it replaced by a default, and the key of the KeyError it raised
Outcome(outcome, counter, compared, defaulted) ==
    [ outcome |-> outcome, counter |-> counter, compared |-> compared,
      defaulted |-> defaulted, key |-> "" ]

KeyError(key, compared, defaulted) ==
    [ outcome |-> "KeyError", counter |-> "", compared |-> compared,
      defaulted |-> defaulted, key |-> key ]

Compared(what, value) == [ what |-> what, value |-> value ]

\* ServeSimulator.simulate_first_serve on the draws d[1] .. d[5]
simulate_first_serve(server, receiver, d) ==
    IF "first_serve_in_pct" \notin DOMAIN server.stats
      THEN KeyError("first_serve_in_pct", << >>, {})
    ELSE IF ~ (d[1] < server.stats.first_serve_in_pct)
      THEN Outcome("None", "", << >>, {})
    ELSE IF "ace_rate_1st" \notin DOMAIN server.stats
      THEN KeyError("ace_rate_1st", << >>, {})
    ELSE
      LET ace == effective_ace_chance(server.stats.ace_rate_1st, server, receiver, d[2])
          dflt == Defaulted(receiver.stats, "ace_rate_against")
          c1 == << Compared("ace_1st", ace) >>
      IN  IF d[3] < ace
            THEN Outcome("ace", "Aces", c1, dflt)
          ELSE IF "serve_and_volley_freq" \notin DOMAIN server.stats
            THEN KeyError("serve_and_volley_freq", c1, dflt)
          ELSE
            LET effective_snv_freq ==
                  EloScaled(server.stats.serve_and_volley_freq, server, receiver)
                c2 == Append(c1, Compared("snv_freq", effective_snv_freq))
            IN  IF ~ (d[4] < effective_snv_freq)
                  THEN Outcome("in_play", "", c2, dflt)
                ELSE IF "serve_and_volley_win_pct" \notin DOMAIN server.stats
                  THEN KeyError("serve_and_volley_win_pct", c2, dflt)
                ELSE
                  LET effective_snv_win ==
                        EloScaled(server.stats.serve_and_volley_win_pct, server, receiver)
                      c3 == Append(c2, Compared("snv_win", effective_snv_win))
                  IN  IF d[5] < effective_snv_win
                        THEN Outcome("serve_and_volley_win", "Serve & Volley Wins", c3, dflt)
                        ELSE Outcome("serve_and_volley_loss", "Serve & Volley Losses",
                                     c3, dflt)

\* the second serve with the ace check made before the double-fault check
simulate_second_serve_ace_first(server, receiver, d) ==
    IF "ace_rate_2nd" \notin DOMAIN server.stats
      THEN KeyError("ace_rate_2nd", << >>, {})
    ELSE
      LET ace == effective_ace_chance(server.stats.ace_rate_2nd, server, receiver, d[3])
          dflt == Defaulted(receiver.stats, "ace_rate_against")
          c1 == << Compared("ace_2nd", ace) >>
      IN  IF d[4] < ace
            THEN Outcome("ace_2nd", "Aces", c1, dflt)
          ELSE IF "double_fault_pct" \notin DOMAIN server.stats
            THEN KeyError("double_fault_pct", c1, dflt)
          ELSE IF d[2] < server.stats.double_fault_pct
            THEN Outcome("double_fault", "Double Faults", c1, dflt)
            ELSE Outcome("in_play", "", c1, dflt)

\* ServeSimulator.simulate_second_serve on the draws d[2] .. d[4]
simulate_second_serve(server, receiver, d) ==
    IF "double_fault_pct" \notin DOMAIN server.stats
      THEN KeyError("double_fault_pct", << >>, {})
    ELSE IF d[2] < server.stats.double_fault_pct
      THEN Outcome("double_fault", "Double Faults", << >>, {})
    ELSE IF "ace_rate_2nd" \notin DOMAIN server.stats
      THEN KeyError("ace_rate_2nd", << >>, {})
    ELSE
      LET ace == effective_ace_chance(server.stats.ace_rate_2nd, server, receiver, d[3])
          dflt == Defaulted(receiver.stats, "ace_rate_against")
          c1 == << Compared("ace_2nd", ace) >>
      IN  IF d[4] < ace
            THEN Outcome("ace_2nd", "Aces", c1, dflt)
            ELSE Outcome("in_play", "", c1, dflt)

\* the bracket RallySimulator.simulate_rally selects on the draw r
rally_bracket(r) ==
    IF r < 3000 THEN "rally_1_3_win"
    ELSE IF r < 7000 THEN "rally_4_6_win"
    ELSE IF r < 9000 THEN "rally_7_9_win"
    ELSE "rally_10plus_win"

\* effective_rally_win of simulate_rally for a base rally win rate
effective_rally_win(base_rally_win, server, receiver) ==
    EloScaled((base_rally_win
                 + (100 * PctUnit - Get(receiver.stats, "return_RiPW", 50 * PctUnit)))
                \div 2,
              server, receiver)

\* RallySimulator.simulate_rally on the draws d[5] and d[6]; the outcome is
\* the name of the winner (the rally length is dropped by the caller)
simulate_rally(server, receiver, d) ==
    IF rally_bracket(d[5]) \notin DOMAIN server.stats
      THEN KeyError(rally_bracket(d[5]), << >>, {})
      ELSE LET win == effective_rally_win(server.stats[rally_bracket(d[5])],
                                          server, receiver)
           IN  Outcome(IF d[6] < win THEN server.name ELSE receiver.name, "",
                       << Compared("rally_win", win) >>,
                       Defaulted(receiver.stats, "return_RiPW"))

\* player.point_stats[counter] += 1 on the object id
Inc(tp, id, counter) == [tp EXCEPT ![id].point_stats[counter] = @ + 1]

\* the serve outcomes counted as points won on serve, without the second-serve ace
ImmediateWins_first_serve == {"ace", "serve_and_volley_win"}

\* "if outcome in ['ace', 'ace_2nd', 'serve_and_volley_win']"
ImmediateWins == {"ace", "ace_2nd", "serve_and_volley_win"}

\* PointSimulator.simulate_point(server, receiver) on the objects tp[server]
\* and tp[receiver]: the objects after the call and what the call did
PointSimulator_simulate_point(tp, server, receiver, d) ==
    LET first == simulate_first_serve(tp[server], tp[receiver], d)
        second == simulate_second_serve(tp[server], tp[receiver], d)
        serve == IF first.outcome = "None" THEN second ELSE first
        tp1 == IF serve.counter = "" THEN tp ELSE Inc(tp, server, serve.counter)
        rally == simulate_rally(tp[server], tp[receiver], d)
        obs == [ call |-> "simulate_point", server |-> server, receiver |-> receiver,
                 first |-> first.outcome,
                 second |-> IF first.outcome = "None" THEN second.outcome ELSE "not played",
                 rally |-> "not played", winner |-> "", key |-> serve.key,
                 compared |-> serve.compared, defaulted |-> serve.defaulted ]
    IN  IF serve.outcome = "KeyError"
          THEN [ players |-> tp1, obs |-> obs ]
        ELSE IF serve.outcome \in ImmediateWins
          THEN [ players |-> Inc(tp1, server, "Points Won on Serve"),
                 obs |-> [obs EXCEPT !.winner = tp[server].name] ]
        ELSE IF serve.outcome \in {"double_fault", "serve_and_volley_loss"}
          THEN [ players |-> tp1, obs |-> [obs EXCEPT !.winner = tp[receiver].name] ]
        ELSE
          LET obs2 == [obs EXCEPT !.rally = IF rally.outcome = "KeyError"
                                              THEN "KeyError" ELSE "played",
                                  !.key = rally.key,
                                  !.compared = @ \o rally.compared,
                                  !.defaulted = @ \cup rally.defaulted]
          IN  IF rally.outcome = "KeyError"
                THEN [ players |-> tp1, obs |-> obs2 ]
              ELSE IF rally.outcome = tp[server].name
                THEN [ players |-> Inc(tp1, server, "Rally Wins as Server"),
                       obs |-> [obs2 EXCEPT !.winner = rally.outcome] ]
              ELSE [ players |-> Inc(tp1, receiver, "Rally Wins as Receiver"),
                     obs |-> [obs2 EXCEPT !.winner = rally.outcome] ]

\* the draws one point may consume
EngineDraws == [1 .. 6 -> Rolls]

\* run_sim.main has built the two players
InitEngine ==
    /\ pc = "engine"
    /\ \E m \in Matchups :
         tennis_players = [ iga |-> TennisPlayer("Iga Swiatek", m[2], m[1]),
                            aryna |-> TennisPlayer("Aryna Sabalenka", m[4], m[3]) ]
    /\ points_played = 0
    /\ point_obs = NoVal
    /\ player1 = NoVal /\ player2 = NoVal
    /\ NoMatchLocals /\ NoSetLocals /\ NoGameLocals
    /\ next_server = 0
    /\ current_server = "none"
    /\ hist = InitHist

\* One call of PointSimulator.simulate_point; a KeyError ends the run.
SimulatePoint(server, receiver, d) ==
    /\ pc = "engine"
    /\ points_played < MaxPoints
    /\ \E run \in {PointSimulator_simulate_point(tennis_players, server, receiver, d)} :
         /\ tennis_players' = run.players
         /\ point_obs' = run.obs
         /\ pc' = IF run.obs.key = "" THEN "engine" ELSE "engine_error"
    /\ points_played' = points_played + 1
    /\ UNCHANGED << player1, player2, matchVars, setVars, gameVars, game_info, tb_info,
                    set_result, hist >>

NextEngine ==
    \E server \in PlayerIds, receiver \in PlayerIds, d \in EngineDraws :
      SimulatePoint(server, receiver, d)

SpecEngine == InitEngine /\ [][NextEngine]_vars

\* ------------------------------------------------------------------------
\* compute_expected_outcomes (setups/tennis_sim/expected.py, sim224.py)
\* ------------------------------------------------------------------------
\* the keys compute_expected_outcomes reads by subscript, in the order read
ExpectedKeys ==
    << "first_serve_in_pct", "ace_rate_1st", "ace_rate_2nd", "double_fault_pct",
       "serve_and_volley_freq", "serve_and_volley_win_pct", "rally_1_3_win",
       "rally_4_6_win", "rally_7_9_win", "rally_10plus_win", "return_RiPW" >>

\* the first key of ExpectedKeys that stats lacks, "" when there is none
FirstMissing(stats) ==
    LET missing == { k \in 1 .. Len(ExpectedKeys) : ExpectedKeys[k] \notin DOMAIN stats }
    IN  IF missing = {} THEN ""
        ELSE ExpectedKeys[CHOOSE k \in missing : \A j \in missing : k <= j]

\* the dictionary compute_expected_outcomes(server, receiver) returns, in
\* percent; the fractions in between are in fixed point
expected_rates(server, receiver) ==
    LET stats == server.stats
        p_in == stats.first_serve_in_pct
        against == Get(stats, "ace_rate_against", 0)
        ace_first == Max2(0, EloScaled(stats.ace_rate_1st, server, receiver) - against)
        expected_aces_first == (p_in * ace_first) \div Scale
        ace_second == Max2(0, EloScaled(stats.ace_rate_2nd, server, receiver) - against)
        expected_aces_second ==
          ((((Scale - p_in) * (Scale - stats.double_fault_pct)) \div Scale) * ace_second)
            \div Scale
        expected_aces == expected_aces_first + expected_aces_second
        expected_double_faults == ((Scale - p_in) * stats.double_fault_pct) \div Scale
        effective_snv_freq == EloScaled(stats.serve_and_volley_freq, server, receiver)
        effective_snv_win == EloScaled(stats.serve_and_volley_win_pct, server, receiver)
        expected_snv_wins ==
          (((p_in * effective_snv_freq) \div Scale) * effective_snv_win) \div Scale
        expected_snv_losses ==
          (((p_in * effective_snv_freq) \div Scale) * (Scale - effective_snv_win))
            \div Scale
        weighted_rally ==
          (30 * stats.rally_1_3_win + 40 * stats.rally_4_6_win
             + 20 * stats.rally_7_9_win + 10 * stats.rally_10plus_win) \div 100
        expected_effective_rally_win ==
          EloScaled((weighted_rally + (100 * PctUnit - stats.return_RiPW)) \div 2,
                    server, receiver)
        prob_rally == Scale - (expected_aces + expected_snv_wins
                                 + expected_double_faults + expected_snv_losses)
        expected_rally_win == (prob_rally * expected_effective_rally_win) \div Scale
    IN  [ Aces |-> expected_aces,
          DoubleFaults |-> expected_double_faults,
          ServeAndVolleyWins |-> expected_snv_wins,
          ServeAndVolleyLosses |-> expected_snv_losses,
          PointsWonOnServe |-> expected_aces + expected_snv_wins,
          RallyWinsAsServer |-> expected_rally_win ]

\* compute_expected_outcomes(server, receiver): the dictionary returned or
\* the KeyError raised, and the keys replaced by a default
compute_expected_outcomes(server, receiver) ==
    IF FirstMissing(server.stats) # ""
      THEN [ key |-> FirstMissing(server.stats), expected |-> NoVal,
             defaulted |-> IF FirstMissing(server.stats) = "first_serve_in_pct"
                             THEN {} ELSE Defaulted(server.stats, "ace_rate_against") ]
      ELSE [ key |-> "", expected |-> expected_rates(server, receiver),
             defaulted |-> Defaulted(server.stats, "ace_rate_against") ]

\* the values of return_RiPW the two players are built with
RiPWDraws == {0, 5050, 100 * PctUnit}

\* stats with the given value of return_RiPW, when it has the key
WithRiPW(stats, v) ==
    IF "return_RiPW" \in DOMAIN stats THEN [stats EXCEPT !.return_RiPW = v] ELSE stats

\* run_sim.main has built the two players
InitExpected ==
    /\ pc = "expected"
    /\ \E m \in Matchups, v1 \in RiPWDraws, v2 \in RiPWDraws :
         tennis_players =
           [ iga |-> TennisPlayer("Iga Swiatek", m[2], WithRiPW(m[1], v1)),
             aryna |-> TennisPlayer("Aryna Sabalenka", m[4], WithRiPW(m[3], v2)) ]
    /\ points_played = 0
    /\ point_obs = NoVal
    /\ player1 = NoVal /\ player2 = NoVal
    /\ NoMatchLocals /\ NoSetLocals /\ NoGameLocals
    /\ next_server = 0
    /\ current_server = "none"
    /\ hist = InitHist

\* One call of compute_expected_outcomes; a KeyError ends the run.
ExpectedOutcomes(server, receiver) ==
    /\ pc = "expected"
    /\ \E run \in {compute_expected_outcomes(tennis_players[server],
                                            tennis_players[receiver])} :
         /\ point_obs' = [ call |-> "compute_expected_outcomes", server |-> server,
                           receiver |-> receiver, key |-> run.key,
                           expected |-> run.expected, defaulted |-> run.defaulted ]
         /\ pc' = IF run.key = "" THEN "expected" ELSE "engine_error"
    /\ UNCHANGED << player1, player2, matchVars, setVars, gameVars, game_info, tb_info,
                    set_result, hist, tennis_players, points_played >>

NextExpected ==
    \/ ExpectedOutcomes("iga", "aryna")
    \/ ExpectedOutcomes("aryna", "iga")

SpecExpected == InitExpected /\ [][NextExpected]_vars

\* Matches, and games and tiebreaks played point by point.
InitAll == Init \/ InitGame \/ InitTiebreak

NextAll == Next \/ NextGame \/ NextTiebreak

SpecAll == InitAll /\ [][NextAll]_vars

TypeOK == pc \in {"idle", "match_loop", "set_loop", "set_tiebreak", "set_ret", "done",
                  "game", "game_ret", "tiebreak", "tb_ret", "point_idle", "point",
                  "engine", "engine_error", "expected"}

\* ------------------------------------------------------------------------
\* Properties
\* ------------------------------------------------------------------------
InMatch == pc \in {"match_loop", "set_loop", "set_tiebreak", "set_ret", "done"}

InSet == pc \in {"set_loop", "set_tiebreak", "set_ret"}

\* C1: in a match, after any sequence of games, tiebreaks and sets, each
\* player's momentum is an integer in [-3, 3].
C1_MomentumBounded ==
    InMatch => /\ player1.momentum \in -3 .. 3
               /\ player2.momentum \in -3 .. 3

\* Player 1 has broken serve four times in a row (games 2, 4, 6 of a 6-0 set
\* and the first game of the second set): the fourth break is absorbed at 3.
C1_Witness ==
    /\ pc = "set_loop"
    /\ hist.sets_started = 2
    /\ p1_stats.games_won = 6 /\ p2_stats.games_won = 0
    /\ games_p1 = 1 /\ games_p2 = 0
    /\ player1.momentum = 3 /\ player2.momentum = -3

\* C2: a result returned by simulate_set has either the winner on at least 6
\* games with a margin of at least 2 and no tiebreak played, or the score 7-6
\* reached by exactly one tiebreak played at 6-6 whose winner holds the 7
\* games; the returned winner is the player with more games.
C2_SetResult ==
    pc = "set_ret" =>
      LET g1 == set_result.games_won_by_p1
          g2 == set_result.games_won_by_p2
          w == Max2(g1, g2)
          l == Min2(g1, g2)
          tbWinner == IF tb_info.winner = "server" THEN next_server
                                                   ELSE Other(next_server)
      IN  /\ \/ hist.tiebreaks = 0 /\ w >= 6 /\ w - l >= 2
             \/ /\ hist.tiebreaks = 1 /\ hist.tb_score = << 6, 6 >>
                /\ w = 7 /\ l = 6
                /\ (IF tbWinner = 1 THEN g1 ELSE g2) = 7
          /\ << w, l >> \in {<< 6, 0 >>, << 6, 1 >>, << 6, 2 >>, << 6, 3 >>, << 6, 4 >>,
                             << 7, 5 >>, << 7, 6 >>}
          /\ set_result.winner = (IF g1 > g2 THEN 1 ELSE 2)
          /\ g1 # g2

\* A set decided by a tiebreak that the receiver of the tiebreak won.
C2_Witness ==
    /\ pc = "set_ret"
    /\ hist.tiebreaks = 1
    /\ tb_info.winner = "receiver"
    /\ set_result.games_won_by_p1 + set_result.games_won_by_p2 = 13

\* C3: with best_of = 3 no set is started once a player has 2 set wins, and
\* the match returns after 2 or 3 sets, the winner holding exactly 2.
C3_BestOfThree ==
    best_of = 3 =>
      /\ InSet => /\ p1_stats.sets_won < 2 /\ p2_stats.sets_won < 2
                  /\ hist.sets_started <= 3
      /\ pc = "done" => /\ hist.sets_started \in {2, 3}
                        /\ Len(hist.set_results) = hist.sets_started
                        /\ Max2(p1_stats.sets_won, p2_stats.sets_won) = 2
                        /\ p1_stats.sets_won + p2_stats.sets_won = hist.sets_started
                        /\ hist.set_results[hist.sets_started].winner
                             = (IF p1_stats.sets_won = 2 THEN 1 ELSE 2)

\* A best-of-3 match that went to the third set.
C3_Witness ==
    /\ pc = "done" /\ best_of = 3
    /\ hist.sets_started = 3
    /\ p1_stats.sets_won = 1 /\ p2_stats.sets_won = 2

\* C4: simulate_game returns at the first point after which one side has at
\* least 4 points and leads by at least 2 (so the winner has
\* max(4, loser + 2) points), and the winner is 'server' exactly when the
\* server has more points.
C4_GameDecided ==
    LET decided == /\ (server_points >= 4 \/ receiver_points >= 4)
                   /\ Abs(server_points - receiver_points) >= 2
        w == Max2(server_points, receiver_points)
        l == Min2(server_points, receiver_points)
    IN  /\ pc = "game" => ~ decided /\ game_info = NoVal
        /\ pc = "game_ret" =>
             /\ decided
             /\ w = Max2(4, l + 2)
             /\ (game_info.winner = "server") = (server_points > receiver_points)
             /\ game_info.winner \in {"server", "receiver"}

\* A game won by the receiver after deuce.
C4_Witness ==
    /\ pc = "game_ret"
    /\ server_points = 3 /\ receiver_points = 5
    /\ game_info.winner = "receiver"

\* C5: simulate_tiebreak returns at the first point after which one side has
\* at least 7 points and leads by at least 2, and the winner is 'server'
\* exactly when the nominal starting server has won more points.
C5_TiebreakDecided ==
    LET srvPts == hist.tb_points[next_server]
        rcvPts == hist.tb_points[Other(next_server)]
        decided == (srvPts >= 7 \/ rcvPts >= 7) /\ Abs(srvPts - rcvPts) >= 2
    IN  /\ pc = "tiebreak" => ~ decided /\ tb_info = NoVal
        /\ pc = "tb_ret" =>
             /\ decided
             /\ Max2(srvPts, rcvPts) = Max2(7, Min2(srvPts, rcvPts) + 2)
             /\ (tb_info.winner = "server") = (srvPts > rcvPts)
             /\ tb_info.winner \in {"server", "receiver"}

\* A tiebreak the nominal starting server won 8-6.
C5_Witness ==
    /\ pc = "tb_ret"
    /\ hist.tb_points[next_server] = 8 /\ hist.tb_points[Other(next_server)] = 6
    /\ tb_info.winner = "server"

\* C6: in simulate_tiebreak point 1 is served by the nominal starting server
\* and the service changes after points 1, 3, 5, 7, ...: points 2-3 are served
\* by the receiver, 4-5 by the server, and so on.
C6_ServiceRotation ==
    \A k \in 1 .. Len(hist.tb_servers) :
      hist.tb_servers[k] = (IF (k \div 2) % 2 = 0 THEN "server" ELSE "receiver")

\* one more or one less than m, kept within [-3, 3]
C7_Up(m) == IF m + 1 > 3 THEN 3 ELSE m + 1

C7_Down(m) == IF m - 1 < -3 THEN -3 ELSE m - 1

C7_Step ==
    LET unchanged == /\ player1.momentum' = player1.momentum
                     /\ player2.momentum' = player2.momentum
    IN  IF pc \in {"set_loop", "set_tiebreak"}
          THEN \* a game or a tiebreak served by next_server is played
               LET info == IF pc = "set_loop" THEN game_info' ELSE tb_info'
               IN  IF info.winner = "server"
                     THEN unchanged
                   ELSE IF next_server = 1
                     THEN /\ player2.momentum' = C7_Up(player2.momentum)
                          /\ player1.momentum' = C7_Down(player1.momentum)
                     ELSE /\ player1.momentum' = C7_Up(player1.momentum)
                          /\ player2.momentum' = C7_Down(player2.momentum)
        ELSE IF pc \in {"match_loop", "set_ret", "game", "tiebreak"}
          THEN \* a set is entered or left, the match returns, a point is played
               unchanged
        ELSE TRUE

\* C7: within a match the momentum changes only when a game or tiebreak is
\* won by the player who was not its server: the winner goes to
\* clamp(m + 1), the server to clamp(m - 1).  When the server wins, while
\* points are played and across set boundaries both values stay.
C7_MomentumFrame == [][C7_Step]_vars

\* Player 1 has just broken player 2 in the first game of the second set,
\* the momentum having been level before.
C7_Witness ==
    /\ pc = "set_loop"
    /\ hist.sets_started = 2
    /\ game_info.winner = "receiver"
    /\ games_p1 = 1 /\ games_p2 = 0
    /\ player1.momentum = 1 /\ player2.momentum = -1

C8_State ==
    pc \in {"match_loop", "set_loop", "set_tiebreak", "set_ret"} =>
      /\ hist.gen_calls = << 1, 1 >>
      /\ ~ hist.point_played => player1.momentum = 0 /\ player2.momentum = 0
      /\ \E f \in FormDraws :
           /\ player1.daily_stats = generate_daily_stats(player1.base_stats, f[1], f[2])
           /\ player2.daily_stats = generate_daily_stats(player2.base_stats, f[3], f[4])

C8_Step ==
    pc \in {"match_loop", "set_loop", "set_tiebreak", "set_ret"} =>
      /\ player1.daily_stats' = player1.daily_stats
      /\ player2.daily_stats' = player2.daily_stats
      /\ hist.gen_calls' = hist.gen_calls

\* C8: simulate_match sets both players' momentum to 0 and calls
\* generate_daily_stats once per player before the first point, whatever the
\* player dictionaries held on entry; the daily stats are not regenerated or
\* modified until the match returns.
C8_MatchEntry == []C8_State /\ [][C8_Step]_vars

\* The first set of a match has been played on daily stats generated once.
C8_Witness ==
    /\ pc = "match_loop"
    /\ hist.point_played
    /\ Len(hist.set_results) = 1
    /\ hist.gen_calls = << 1, 1 >>
    /\ player1.daily_stats = generate_daily_stats(sinner_base_stats, FormMin, FormMax)
    /\ player1.momentum # 0

\* C9: when simulate_match returns exactly one player has match_won = TRUE;
\* that player has best_of // 2 + 1 set wins and the other strictly fewer.
C9_OneWinner ==
    pc = "done" =>
      /\ best_of >= 1
      /\ p1_stats.match_won # p2_stats.match_won
      /\ LET w == IF p1_stats.match_won THEN p1_stats ELSE p2_stats
             l == IF p1_stats.match_won THEN p2_stats ELSE p1_stats
         IN  /\ w.sets_won = best_of \div 2 + 1
             /\ l.sets_won < w.sets_won

\* A match with an even best_of won 2-1 by player 2.
C9_Witness ==
    /\ pc = "done" /\ best_of = 2
    /\ p2_stats.match_won /\ ~ p1_stats.match_won
    /\ p2_stats.sets_won = 2 /\ p1_stats.sets_won = 1

\* the sum of a field over the set results, and the sets a player won
RECURSIVE SumField(_, _)
SumField(results, field) ==
    IF results = << >> THEN 0
    ELSE Head(results)[field] + SumField(Tail(results), field)

RECURSIVE SetsWonBy(_, _)
SetsWonBy(results, p) ==
    IF results = << >> THEN 0
    ELSE (IF Head(results).winner = p THEN 1 ELSE 0) + SetsWonBy(Tail(results), p)

\* C10: in the results of simulate_match each player's games_won, aces and
\* double_faults are the sums of the per-set tallies simulate_set returned,
\* sets_won counts the sets the player won, the two sets_won sum to the
\* number of sets played, and sets_lost and games_lost are the opponent's
\* sets_won and games_won.
C10_Aggregates ==
    pc = "done" =>
      LET r == hist.set_results
      IN  /\ p1_stats.games_won = SumField(r, "games_won_by_p1")
          /\ p2_stats.games_won = SumField(r, "games_won_by_p2")
          /\ p1_stats.aces = SumField(r, "aces_by_p1")
          /\ p2_stats.aces = SumField(r, "aces_by_p2")
          /\ p1_stats.double_faults = SumField(r, "df_by_p1")
          /\ p2_stats.double_faults = SumField(r, "df_by_p2")
          /\ p1_stats.sets_won = SetsWonBy(r, 1)
          /\ p2_stats.sets_won = SetsWonBy(r, 2)
          /\ p1_stats.sets_won + p2_stats.sets_won = Len(r)
          /\ p1_stats.sets_lost = p2_stats.sets_won
          /\ p2_stats.sets_lost = p1_stats.sets_won
          /\ p1_stats.games_lost = p2_stats.games_won
          /\ p2_stats.games_lost = p1_stats.games_won

\* A three-set match in which player 1 served an ace in the first set and
\* a double fault was served in a later set.
C10_Witness ==
    /\ pc = "done"
    /\ Len(hist.set_results) = 3
    /\ hist.set_results[1].aces_by_p1 = 1
    /\ p1_stats.aces = 1
    /\ hist.set_results[1].df_by_p1 + hist.set_results[1].df_by_p2 = 0
    /\ p1_stats.double_faults + p2_stats.double_faults = 1

\* C11: within a set, the first game is served by the starting_server passed
\* to simulate_set, and any two consecutive regular (non-tiebreak) games are
\* served by different players.
C11_GameServers ==
    LET gs == hist.game_servers
        ss == hist.set_servers
    IN  InSet => /\ Len(ss) = hist.sets_started
                 /\ Len(gs) = games_p1 + games_p2 - hist.tiebreaks
                 /\ Len(gs) >= 1 => gs[1] = ss[Len(ss)]
                 /\ \A k \in 1 .. Len(gs) - 1 : gs[k] # gs[k + 1]

\* the second set, started by player 2, has reached 6-6 after twelve games
C11_Witness ==
    /\ pc = "set_tiebreak"
    /\ hist.set_servers = << 1, 2 >>
    /\ hist.game_servers = << 2, 1, 2, 1, 2, 1, 2, 1, 2, 1, 2, 1 >>

\* C12: in a match the first set is started with player 1 serving and the
\* starting server passed to simulate_set alternates on every successive set
\* (1, 2, 1, ...), whoever served the last game of the previous set.
C12_SetServers ==
    LET ss == hist.set_servers
    IN  InMatch => /\ Len(ss) = hist.sets_started
                   /\ \A k \in 1 .. Len(ss) : ss[k] = (IF k % 2 = 1 THEN 1 ELSE 2)

\* three sets are started; player 2 served the last game of the first set and
\* of the second set: the second set starts with the player who has just
\* served, the third set with the other player
C12_Witness ==
    /\ pc = "set_loop"
    /\ hist.set_servers = << 1, 2, 1 >>
    /\ hist.last_servers = << 2, 2 >>

\* C13: simulate_point decides a point in this order: a double fault first
\* (the server loses), otherwise an ace (the server wins), otherwise a draw
\* against p_win; the triple returned is one of (False, False, True),
\* (True, True, False), (True, False, False), (False, False, False).
C13_PointOrder ==
    (pc = "point" /\ hist.point_played) =>
      LET lp == hist.last_point
          r == lp.result
          stats == apply_momentum_to_stats(player1.daily_stats, player1.momentum)
          df_prob == stats.DoubleFaultPercentage
          ace_prob == stats.AcePercentage
      IN  /\ lp.roll < df_prob
                => r = [point_won |-> FALSE, is_ace |-> FALSE, is_df |-> TRUE]
          /\ (lp.roll >= df_prob /\ lp.roll2 < ace_prob)
                => r = [point_won |-> TRUE, is_ace |-> TRUE, is_df |-> FALSE]
          /\ (lp.roll >= df_prob /\ lp.roll2 >= ace_prob)
                => /\ ~ r.is_ace /\ ~ r.is_df
                   /\ r.point_won <=> lp.roll3 < p_win(stats)
          /\ << r.point_won, r.is_ace, r.is_df >>
                \in { << FALSE, FALSE, TRUE >>, << TRUE, TRUE, FALSE >>,
                      << TRUE, FALSE, FALSE >>, << FALSE, FALSE, FALSE >> }

\* both the double-fault draw and the ace draw are below their probability:
\* the point is a double fault
C13_Witness ==
    /\ pc = "point" /\ hist.point_played
    /\ player1.base_stats = sinner_base_stats
    /\ hist.last_point.roll = 0 /\ hist.last_point.roll2 = 0
    /\ hist.last_point.result.is_df /\ ~ hist.last_point.result.point_won

InEngine == pc \in {"engine", "engine_error"}

\* C14: in the point engine, after any sequence of calls of
\* PointSimulator.simulate_point with any assignment of server and receiver,
\* every player's 'Points Won on Serve' equals that player's 'Aces' plus
\* 'Serve & Volley Wins'.
C14_PointsWonOnServe ==
    InEngine =>
      \A id \in PlayerIds :
        LET ps == tennis_players[id].point_stats
        IN  ps["Points Won on Serve"] = ps["Aces"] + ps["Serve & Volley Wins"]

\* a player has won a point by serve and volley and then one by an ace on
\* the second serve
C14_Witness ==
    /\ InEngine /\ points_played = 2
    /\ point_obs.second = "ace_2nd"
    /\ \E id \in PlayerIds :
         LET ps == tennis_players[id].point_stats
         IN  /\ ps["Aces"] = 1 /\ ps["Serve & Volley Wins"] = 1
             /\ ps["Points Won on Serve"] = 2

\* the fields of a stats record lie in [0, 1]
StatsInUnitRange(stats) ==
    \A f \in DOMAIN stats : stats[f] >= 0 /\ stats[f] <= Scale

\* C15: for base stats with fields in [0, 1], form multipliers in [0.7, 1.3]
\* and a momentum in [-3, 3], the double-fault probability, the ace
\* probability and p_win that simulate_point compares with its draws lie in
\* [0, 1].
C15_Probabilities ==
    (/\ pc = "point"
     /\ StatsInUnitRange(player1.base_stats)
     /\ player1.momentum \in -3 .. 3) =>
      LET stats == apply_momentum_to_stats(player1.daily_stats, player1.momentum)
      IN  /\ stats.DoubleFaultPercentage >= 0 /\ stats.DoubleFaultPercentage <= Scale
          /\ stats.AcePercentage >= 0 /\ stats.AcePercentage <= Scale
          /\ p_win(stats) >= 0 /\ p_win(stats) <= Scale

\* a point is played on base rates of 0.95 with the best form and the
\* highest momentum: the ace probability and p_win are held at 1.0
C15_Witness ==
    /\ pc = "point" /\ hist.point_played
    /\ player1.momentum = 3
    /\ player1.base_stats.AcePercentage = 9500
    /\ player1.base_stats.FirstServeWonPercentage = Scale
    /\ player1.daily_stats.AcePercentage = Scale
    /\ apply_momentum_to_stats(player1.daily_stats, 3).AcePercentage = Scale
    /\ p_win(apply_momentum_to_stats(player1.daily_stats, 3)) = Scale
    /\ hist.last_point.result.is_ace

\* C17: generate_daily_stats on a base record with fields in [0, 1] and
\* forms clipped to [0.7, 1.3] returns a record whose scaled fields (ace,
\* first and second serve won, double fault, return points won, break
\* points converted) lie in [0, 1] and whose FirstServePercentage is the
\* base value.
C17_DailyStats ==
    (pc = "point" /\ StatsInUnitRange(player1.base_stats)) =>
      /\ hist.gen_calls[1] = 1
      /\ \A f \in { "AcePercentage", "FirstServeWonPercentage",
                     "SecondServeWonPercentage", "DoubleFaultPercentage",
                     "ReturnPointsWonPercentage", "BreakPointsConvertedPercentage" } :
            player1.daily_stats[f] >= 0 /\ player1.daily_stats[f] <= Scale
      /\ player1.daily_stats.FirstServePercentage = player1.base_stats.FirstServePercentage

\* the daily stats of base rates of 0.95 on a serve_form of 1.3 and a
\* return_form of 0.7: the ace rate is held at 1.0
C17_Witness ==
    /\ pc = "point" /\ hist.gen_calls[1] = 1
    /\ player1.base_stats.AcePercentage = 9500
    /\ player1.daily_stats.AcePercentage = Scale
    /\ player1.daily_stats.DoubleFaultPercentage = (9500 * 100) \div FormMax
    /\ player1.daily_stats.ReturnPointsWonPercentage = (9500 * FormMin) \div 100

\* C16: in the point engine, every Elo- or variance-scaled probability that
\* is compared with a random draw (the ace chance of a first or second
\* serve, the serve-and-volley frequency and win chance, the rally-win
\* probability) lies in its valid range, [0, 100] in percent and [0, 1] for
\* the rally, when it is compared.
C16_Clamped ==
    (InEngine /\ points_played > 0) =>
      \A k \in 1 .. Len(point_obs.compared) :
        /\ point_obs.compared[k].value >= 0
        /\ point_obs.compared[k].value <= 100 * PctUnit

\* C18: a point that reads a statistic field its stats record lacks ends
\* with an error raised to the caller; no absent field is replaced by a
\* default value.
C18_NoDefaults ==
    (InEngine /\ points_played > 0) => point_obs.defaulted = {}

\* C19: the 'Rally Wins as Server' rate of compute_expected_outcomes(server,
\* receiver) is computed from the receiver's return_RiPW: for fixed server
\* stats and Elo ratings it does not vary with the server's own return_RiPW,
\* and it varies with the receiver's.
C19_RallyUsesReceiver ==
    (pc = "expected" /\ point_obs # NoVal) =>
      LET server == tennis_players[point_obs.server]
          receiver == tennis_players[point_obs.receiver]
          rate(s, r) == compute_expected_outcomes(s, r).expected.RallyWinsAsServer
      IN  /\ point_obs.expected.RallyWinsAsServer = rate(server, receiver)
          /\ \A v \in RiPWDraws :
               rate([server EXCEPT !.stats.return_RiPW = v], receiver)
                 = rate(server, receiver)
          /\ \E v \in RiPWDraws :
               rate(server, [receiver EXCEPT !.stats.return_RiPW = v])
                 # rate(server, receiver)

C20_State ==
    pc \in {"idle", "match_loop", "set_loop", "set_tiebreak", "set_ret", "done",
            "game", "game_ret", "tiebreak", "tb_ret"} =>
      /\ player1.base_stats = sinner_base_stats
      /\ player2.base_stats = alcaraz_base_stats

C20_Step ==
    /\ player1.base_stats' = player1.base_stats
    /\ player2.base_stats' = player2.base_stats
    /\ pc \in {"match_loop", "set_loop", "set_tiebreak", "set_ret", "game", "tiebreak"} =>
         /\ player1.daily_stats' = player1.daily_stats
         /\ player2.daily_stats' = player2.daily_stats

\* C20: no operation of the match simulator writes to a player's base_stats:
\* generate_daily_stats and apply_momentum_to_stats leave the record passed
\* to them unchanged, so base_stats keeps its initial value over any number
\* of matches of the batch loop, and daily_stats is left unchanged by the
\* simulation of points, games, tiebreaks and sets.
C20_BaseStatsFrame == []C20_State /\ [][C20_Step]_vars

\* a match of three sets has returned: the daily stats differ from the base
\* stats, which are the ones the match was started on
C20_Witness ==
    /\ pc = "done"
    /\ hist.sets_started = 3
    /\ hist.point_played
    /\ player1.base_stats = sinner_base_stats
    /\ player1.daily_stats = generate_daily_stats(sinner_base_stats, FormMax, FormMin)
    /\ player1.daily_stats # player1.base_stats

\* C21: deterministic replay.  A call of simulate_match that consumes the
\* draws of an earlier call on the same base stats and best_of returns the
\* result pair the earlier call returned, whatever momentum and daily_stats
\* the player dictionaries held before either call.
C21_Replay ==
    (pc = "done" /\ hist.replay.call = 2) =>
      /\ hist.replay.pos = Len(hist.replay.draws)
      /\ << p1_stats, p2_stats >> = hist.replay.result

\* a replay has returned, entered with a momentum of -4 and daily stats of
\* another day, after games that a momentum of -4 would have turned
C21_Witness ==
    /\ pc = "done" /\ hist.replay.call = 2
    /\ hist.replay.entry[1].momentum = -4
    /\ hist.replay.entry[1].daily_stats # EmptyStats
    /\ hist.replay.entry[2].momentum = 3
    /\ p1_stats.games_won > 0 /\ p2_stats.games_won > 0
    /\ \E k \in 2 .. Len(hist.replay.draws) : hist.replay.draws[k][2] = DrawMid

\* C22 as stated: simulate_game returns within a bounded number of points.
\* With MaxGamePoints as the bound: a game whose loop is still running has
\* played fewer than MaxGamePoints points.
C22_Bounded ==
    pc = "game" => server_points + receiver_points < MaxGamePoints

\* C22 as amended: the loop of simulate_game has no bound on its points, but
\* it is never running on a decided score, and from every score it reaches,
\* five further points on equal draws end the game (so it returns with
\* probability 1, whatever the probabilities of the server are).
C22_CanReturn ==
    pc = "game" =>
      /\ ~ game_decided(GameLocals)
      /\ \A d \in PointDraws :
           simulate_game_from(PlayerOf(next_server), GameLocals, [i \in 1 .. 5 |-> d],
                              1, << >>).returned

\* the loop is running at the second deuce, eight points played
C22_Witness ==
    /\ pc = "game"
    /\ server_points = 4 /\ receiver_points = 4

\* C23: in the point engine a second serve is simulated exactly when the
\* first serve is a fault; a double fault and a second-serve ace come only
\* from a second serve, serve-and-volley outcomes only from a first serve
\* that was in and missed the ace check; a double fault is decided before the
\* second-serve ace chance is compared; and the point goes to the server on
\* ace, second-serve ace, serve-and-volley win or a rally won by the server,
\* to the receiver on double fault, serve-and-volley loss or a rally won by
\* the receiver.
C23_ServeOrder ==
    (InEngine /\ points_played > 0) =>
      LET o == point_obs
          serve == IF o.first = "None" THEN o.second ELSE o.first
          server_name == tennis_players[o.server].name
          receiver_name == tennis_players[o.receiver].name
          checks == [k \in 1 .. Len(o.compared) |-> o.compared[k].what]
          ps(id, counter) == tennis_players[id].point_stats[counter]
      IN  /\ (o.second # "not played") <=> (o.first = "None")
          /\ o.first \in {"None", "ace", "serve_and_volley_win", "serve_and_volley_loss",
                          "in_play", "KeyError"}
          /\ o.second \in {"not played", "double_fault", "ace_2nd", "in_play", "KeyError"}
          /\ o.first \in {"serve_and_volley_win", "serve_and_volley_loss"} =>
                checks = << "ace_1st", "snv_freq", "snv_win" >>
          /\ o.second = "double_fault" => checks = << >>
          /\ o.second = "ace_2nd" => checks = << "ace_2nd" >>
          /\ serve \in {"ace", "ace_2nd", "serve_and_volley_win"} =>
                o.rally = "not played" /\ o.winner = server_name
          /\ serve \in {"double_fault", "serve_and_volley_loss"} =>
                o.rally = "not played" /\ o.winner = receiver_name
          /\ serve = "in_play" <=> o.rally # "not played"
          /\ o.rally = "played" =>
                /\ o.winner \in {server_name, receiver_name}
                /\ o.winner = server_name => ps(o.server, "Rally Wins as Server") > 0
                /\ o.winner # server_name => ps(o.receiver, "Rally Wins as Receiver") > 0
          /\ (serve = "KeyError" \/ o.rally = "KeyError") <=> o.winner = ""

\* two points served by the same player to the other: an ace,
\* then a double fault
C23_Witness ==
    /\ InEngine /\ points_played = 2
    /\ point_obs.server # point_obs.receiver
    /\ point_obs.first = "None" /\ point_obs.second = "double_fault"
    /\ point_obs.winner = tennis_players[point_obs.receiver].name
    /\ tennis_players[point_obs.server].point_stats["Aces"] = 1
    /\ tennis_players[point_obs.server].point_stats["Points Won on Serve"] = 1
    /\ tennis_players[point_obs.server].point_stats["Serve & Volley Wins"] = 0

\* C24: the alternation of service extends to the tiebreak.  When a set has
\* been decided by a tiebreak, the nominal server the tiebreak was played
\* with (next_server, which the tiebreak leaves alone) is the player who did
\* not serve the twelfth game.
C24_TiebreakServer ==
    (pc = "set_ret" /\ hist.tiebreaks = 1) =>
      /\ Len(hist.game_servers) = 12
      /\ next_server = Other(hist.game_servers[12])

\* C25: for each player, the aces and the double_faults of the match result
\* are the numbers of points of the whole match, tiebreak points included,
\* that the player served and on which simulate_point reported an ace,
\* respectively a double fault.
C25_ServedTallies ==
    pc = "done" =>
      /\ p1_stats.aces = hist.aces[1] /\ p2_stats.aces = hist.aces[2]
      /\ p1_stats.double_faults = hist.dfs[1] /\ p2_stats.double_faults = hist.dfs[2]

\* C26: from the reset at the start of a match on, between any two games,
\* tiebreaks or sets and in the returned state, the momentum of player 1 and
\* the momentum of player 2 add up to 0, also when the clamp at -3 or +3
\* absorbs an update.
C26_MomentumOpposite ==
    InMatch => player1.momentum + player2.momentum = 0

\* player 1 has broken serve in games 2, 4 and 6 of a 6-0 set and in the first
\* game of the second set: the fourth break leaves 3 and -3
C26_Witness ==
    /\ pc = "set_loop"
    /\ hist.sets_started = 2 /\ hist.set_servers = << 1, 2 >>
    /\ hist.set_results[1].games_won_by_p1 = 6 /\ hist.set_results[1].games_won_by_p2 = 0
    /\ game_info.winner = "receiver"
    /\ games_p1 = 1 /\ games_p2 = 0
    /\ player1.momentum = 3 /\ player2.momentum = -3

\* the per-serve ace probability of the point engine, in percent, the
\* variance being uniform(0.9, 1.1) = 1.0: p_in x (first-serve ace chance)
\* + (1 - p_in) x (1 - double fault) x (second-serve ace chance)
C27_EngineAces(server, receiver) ==
    LET stats == server.stats
        p_in == stats.first_serve_in_pct
        ace_first == effective_ace_chance(stats.ace_rate_1st, server, receiver, Scale \div 2)
        ace_second == effective_ace_chance(stats.ace_rate_2nd, server, receiver, Scale \div 2)
    IN  (p_in * ace_first) \div Scale
          + ((((Scale - p_in) * (Scale - stats.double_fault_pct)) \div Scale) * ace_second)
              \div Scale

\* C27: with the variance multiplier at 1.0, the 'Aces' rate returned by
\* compute_expected_outcomes(server, receiver) is the per-serve ace
\* probability of the point engine for the same server and receiver (up to
\* the rounding of the last digit).
C27_ExpectedAces ==
    (pc = "expected" /\ point_obs # NoVal) =>
      LET server == tennis_players[point_obs.server]
          receiver == tennis_players[point_obs.receiver]
      IN  Abs(point_obs.expected.Aces - C27_EngineAces(server, receiver)) <= 1

\* the six outcome counters of a player
C28_Counters ==
    { "Aces", "Double Faults", "Serve & Volley Wins", "Serve & Volley Losses",
      "Rally Wins as Server", "Rally Wins as Receiver" }

C28_Total(ps) ==
    ps["Aces"] + ps["Double Faults"] + ps["Serve & Volley Wins"]
      + ps["Serve & Volley Losses"] + ps["Rally Wins as Server"]
      + ps["Rally Wins as Receiver"]

\* the sum of the six counters over both players is the number of points
\* simulated (a call ended by a KeyError has simulated none)
C28_State ==
    InEngine =>
      C28_Total(tennis_players["iga"].point_stats)
        + C28_Total(tennis_players["aryna"].point_stats)
      = points_played - (IF pc = "engine_error" THEN 1 ELSE 0)

\* no counter decreases, and a simulated point adds 1 to exactly one counter:
\* one of the five serve counters of the server, or 'Rally Wins as Receiver'
\* of the receiver
C28_Step ==
    InEngine =>
      /\ \A j \in PlayerIds, k \in C28_Counters :
           tennis_players'[j].point_stats[k] >= tennis_players[j].point_stats[k]
      /\ (pc' = "engine" /\ points_played' = points_played + 1) =>
           \E c \in C28_Counters :
             LET id == IF c = "Rally Wins as Receiver" THEN point_obs'.receiver
                                                       ELSE point_obs'.server
             IN  /\ tennis_players'[id].point_stats[c]
                      = tennis_players[id].point_stats[c] + 1
                 /\ \A j \in PlayerIds, k \in C28_Counters :
                      << j, k >> # << id, c >> =>
                        tennis_players'[j].point_stats[k]
                          = tennis_players[j].point_stats[k]

\* C28: in the point engine every simulated point increments exactly one of
\* Aces, Double Faults, Serve & Volley Wins, Serve & Volley Losses, Rally Wins
\* as Server (of the server) or Rally Wins as Receiver (of the receiver) by
\* 1 and no counter ever decreases, so after N points the six counters of
\* the two players add up to N.
C28_OneCounter == []C28_State /\ [][C28_Step]_vars

\* two points served by different players: a rally won by the receiver, then
\* a double fault
C28_Witness ==
    /\ pc = "engine" /\ points_played = 2
    /\ point_obs.server # point_obs.receiver
    /\ point_obs.second = "double_fault"
    /\ tennis_players[point_obs.server].point_stats["Double Faults"] = 1
    /\ tennis_players[point_obs.server].point_stats["Rally Wins as Receiver"] = 1
    /\ C28_Total(tennis_players[point_obs.receiver].point_stats) = 0

\* C29: the outcome of a regular service game depends only on the server's
\* daily stats and momentum and on the draws.  A game played again with the
\* same server state and the same draws, the receiver holding other daily
\* stats and another momentum, returns the same winner, ace tally and
\* double-fault tally.
C29_ReceiverIgnored ==
    (pc = "set_loop" /\ hist.replay # NoVal /\ hist.replay.call = 2
       /\ hist.replay.pos = 1) =>
      game_info = hist.replay.result

\* player 1, out of form and with a momentum of -3, has lost serve after a
\* double fault, and again against a receiver in another state
C29_Witness ==
    /\ pc = "set_loop" /\ hist.replay # NoVal
    /\ hist.replay.call = 2 /\ hist.replay.pos = 1
    /\ hist.set_servers = << 1 >>
    /\ hist.replay.entry[1].momentum = -3
    /\ hist.replay.entry[2].momentum = -3
    /\ hist.replay.entry[2].daily_stats = hist.replay.entry[1].daily_stats
    /\ game_info = [winner |-> "receiver", server_aces |-> 0, server_double_faults |-> 1]

\* C30: simulate_match never changes the clean_sets and breaks fields of the
\* two results after initialising them: both are 0 during the match and in
\* every returned result, whatever the set scores and however many breaks of
\* serve occurred.
C30_NeverTallied ==
    InMatch =>
      /\ p1_stats.clean_sets = 0 /\ p1_stats.breaks = 0
      /\ p2_stats.clean_sets = 0 /\ p2_stats.breaks = 0

\* a match has returned that player 1 won with a set to love, breaking the
\* serve of player 2 three times in it
C30_Witness ==
    /\ pc = "done"
    /\ p1_stats.match_won
    /\ \E k \in 1 .. Len(hist.set_results) :
         /\ hist.set_results[k].winner = 1
         /\ hist.set_results[k].games_won_by_p1 = 6
         /\ hist.set_results[k].games_won_by_p2 = 0
    /\ player1.momentum = 3
    /\ p1_stats.clean_sets = 0 /\ p1_stats.breaks = 0

====
